---- MODULE Spec2Model ----
(***************************************************************************)
(* Model of go-jobExecutor: a JobExecutor holds a JobList; Execute runs    *)
(* every job behind the global limiterChan, DagExecute runs them in        *)
(* topological order of their DependsOn lists.  The invoking goroutine     *)
(* ("main") and one goroutine per launched job are interleaved step by     *)
(* step.  The handlers of the four events are kept as the nested closures  *)
(* augmentJobHandler builds; what each event was fired on is recorded.     *)
(***************************************************************************)
EXTENDS Integers, Sequences, FiniteSets, TLC

(* ------------------------------ bounds -------------------------------- *)
\* largest number of jobs registered in one executor
MaxJobs == 3
\* largest number of AddJobDependency calls on one executor
MaxDeps == 2
\* largest argument given to SetMaxConcurrentJobs
MaxCap == 2
\* value of runtime.GOMAXPROCS(0) on the host
GOMAXPROCS == 2
\* jobs and AddJobDependency calls of the graphs IsAcyclic is tried on
MaxGraphJobs == 3
MaxGraphDeps == 4
MaxKahnJobs == 3
MaxKahnDeps == 3
MaxKahnCalls == 2
MaxKahnRunJobs == 2
\* largest cap the nine-job reference topology is run with
MaxRefCap == 4
\* jobs, AddJobDependency calls and handler registrations of the executors
\* whose event handlers are followed
MaxHookJobs == 2
MaxHookDeps == 1
MaxHandlers == 2
\* largest number of scheduling calls on one executor
MaxRuns == 2
\* largest status word and flag word job.IsState is tried on
MaxStatusWord == 15
\* SetMaxConcurrentJobs is given arguments from -MaxNegCap on, where the
\* arguments below 1 are followed
MaxNegCap == 1
\* jobs and AddJobDependency calls of the executors whose calls of
\* SetMaxConcurrentJobs are followed, and largest number of such calls made
\* while a run is in progress
MaxReconfigJobs == 2
MaxReconfigDeps == 1
MaxReconfigs == 1
\* jobs of the executors whose registration calls are followed, and largest
\* number of values given to one AddJobs, AddJobCmds or AddJobFns call
MaxRegJobs == 2
MaxBatch == 2
\* jobs and AddJobDependency calls of the two executors that run at the same
\* time in one process
MaxSharedJobs == 2
MaxSharedDeps == 1
MaxPeerJobs == 2
MaxPeerDeps == 1

(* --------------------------- job constants ---------------------------- *)
JobStatePending == 0
JobStateRunning == 1
JobStateDone == 2
JobStateSucceed == 4
JobStateFailed == 8

NoErr == "nil"
ErrRequiredJobFailed == "required job failed"
ErrCyclicDependencyDetected == "cyclic dependencies detected"
ErrTest == "test error"

\* the payloads a job wraps: a unit of work that succeeds, one that fails
Payloads == {"ok", "fail"}
\* what the unit of work returns: TestRunnableSuccessFn / TestRunnableFailFn
WorkRes(p) == IF p = "ok" THEN "done" ELSE ""
WorkErr(p) == IF p = "ok" THEN NoErr ELSE ErrTest

\* the error of (*exec.Cmd).CombinedOutput for a child that exits with 1
ErrExit == "exit status 1"
\* what the commands of TestJobExecutor_DagExecute leave: bash -c "sleep 1"
\* and bash -c "exit 1" print nothing, the second exits with status 1
CmdRes(args) == ""
CmdErr(args) == IF args = <<"bash", "-c", "exit 1">> THEN ErrExit ELSE NoErr

\* the error of (*exec.Cmd).Start on a command that was started before
ErrStarted == "exec: already started"

\* res, err of the work of a job: j.Cmd.CombinedOutput() when Cmd.Stdout and
\* Cmd.Stderr are nil, else j.Cmd.Run(), which collects no output; or j.Fn()
JobRes(job) ==
    IF job.payload = "cmd"
        THEN IF job.Stdout = "nil" THEN CmdRes(job.Args) ELSE ""
        ELSE WorkRes(job.payload)
JobErr(job) ==
    IF job.payload = "cmd"
        THEN IF job.Started THEN ErrStarted ELSE CmdErr(job.Args)
        ELSE WorkErr(job.payload)

\* the job after its work was called: CombinedOutput has set Cmd.Stdout and
\* Cmd.Stderr to its buffer and the command is started; a closure of
\* WithInterleavedOutput has set its variable fn to nil
JobAfterWork(job) ==
    IF job.payload = "cmd"
        THEN [job EXCEPT !.Started = TRUE,
                         !.Stdout = IF @ = "nil" THEN "buf" ELSE @]
        ELSE [job EXCEPT !.Fn = IF @ = "wrapped" THEN "spent" ELSE @]

(* ----------------------------- helpers -------------------------------- *)
RECURSIVE BitAnd(_, _)
BitAnd(a, b) ==
    IF a = 0 \/ b = 0 THEN 0
    ELSE (IF a % 2 = 1 /\ b % 2 = 1 THEN 1 ELSE 0) + 2 * BitAnd(a \div 2, b \div 2)

BitOr(a, b) == a + b - BitAnd(a, b)

\* a test of the bits that has no case for JobStatePending
StatusIsMaskOnly(status, jobState) == BitAnd(status, jobState) # 0

\* job.IsState on a status word
StatusIs(status, jobState) ==
    IF jobState = 0 THEN status = 0 ELSE BitAnd(status, jobState) # 0

RECURSIVE SeqSum(_)
SeqSum(s) == IF s = <<>> THEN 0 ELSE Head(s) + SeqSum(Tail(s))

\* number of occurrences of x in the sequence s
RECURSIVE Occurrences(_, _)
Occurrences(s, x) ==
    IF s = <<>> THEN 0
    ELSE (IF Head(s) = x THEN 1 ELSE 0) + Occurrences(Tail(s), x)

VARIABLES
    jobs,           \* JobExecutor.jobs: job id -> job record
    limiterCap,     \* cap(limiterChan)
    limiterLen,     \* len(limiterChan): slots held
    mode,           \* which scheduler the executor runs: "none", "flat", "dag"
    pc,             \* position of the invoking goroutine
    cur,            \* job being launched (i in execute, job.id in dagExecute)
    adjacencyList,  \* dagExecute: job id -> ids of the jobs that depend on it
    dependentCount, \* dagExecute: job id -> dependencies not yet completed
    jobQueue,       \* dagExecute: ready queue
    doneJob,        \* dagExecute: completions consumed
    doneChanClosed, \* dagExecute: close(doneChan) has run
    wg,             \* sync.WaitGroup counter
    g,              \* job id -> position of the goroutine running job.run
    errs,           \* Execute/DagExecute: errs slice filled by the OnJobDone handler
    res,            \* the JobsError map res of Execute / DagExecute
    startsCalled,   \* times onJobsStart fired
    startCalled,    \* job id -> times onJobStart fired
    doneCalled,     \* job id -> times onJobDone fired
    donesCalled,    \* times onJobsDone fired
    invoked,        \* job id -> times the unit of work was invoked
    dagCalled,      \* times the dagExecute primitive was entered
    acyclic,        \* what IsAcyclic returned since the last registration:
                    \* "unknown" (not called), "true", "false"
    prev,           \* outcome of an earlier run on an identical JobSet
    opts,           \* JobExecutor.opts: the handler of each of the four events
    log,            \* per event (and job): the handlers invoked, in order
    saw,            \* per event (and job): the job status the event was fired on
    runs,           \* scheduling calls entered on this executor
    registered,     \* per event: the handlers in the order they were registered
    isState,        \* a call of job.IsState: the status, the flag, the result
    capArg,         \* the argument of the last SetMaxConcurrentJobs call,
                    \* where the arguments of the calls are followed
    oldChan,        \* the channel limiterChan held before it was replaced
                    \* while a run was in progress: its cap and its len
    stale,          \* ids of the jobs whose goroutine may still read the
                    \* replaced channel from the variable limiterChan
    staleMain,      \* the invoking goroutine sends on the replaced channel
    reconfigs,      \* SetMaxConcurrentJobs calls made while a run was in progress
    lastCall,       \* the last registration call that was followed: the
                    \* method, the values it was given, the job list
                    \* before it and whether it panicked
    added,          \* values the followed registration calls took as jobs
    late,           \* goroutines of the flat runs that have returned that
                    \* have yet to receive from limiterChan
    kahn,           \* a call of IsAcyclic followed statement by statement:
                    \* the backing arrays of the slices, the slices e.jobs
                    \* and job.DependsOn, the locals of the call, and the
                    \* values returned since the last registration
    commit,         \* one job whose run is followed write by write: its
                    \* fields, its mutex, the position of job.run and of a
                    \* goroutine that reads the job through the public API
    peer            \* a second JobExecutor of the process and its scheduling
                    \* run: its job list, the position of its invoking
                    \* goroutine and of its job goroutines, its WaitGroup
                    \* and the locals of its dagExecute

vars == <<jobs, limiterCap, limiterLen, mode, pc, cur, adjacencyList,
          dependentCount, jobQueue, doneJob, doneChanClosed, wg, g, errs, res,
          startsCalled, startCalled, doneCalled, donesCalled, invoked,
          dagCalled, acyclic, prev, opts, log, saw, runs, registered,
          isState, capArg, oldChan, stale, staleMain, reconfigs, lastCall,
          added, peer, commit, late, kahn>>

sched == <<cur, adjacencyList, dependentCount, jobQueue, doneJob, doneChanClosed>>
hooks == <<startsCalled, startCalled, doneCalled, donesCalled>>
limiter == <<limiterCap, limiterLen>>
replaced == <<oldChan, stale, staleMain, reconfigs>>
regs == <<lastCall, added>>
ext == <<capArg, replaced, regs, peer, commit, late, kahn>>
aux == <<isState, ext>>
obs == <<opts, log, saw, runs, registered, aux>>

(* ------------------------------ JobList ------------------------------- *)
\* e.Len()
JobsLen == Cardinality(DOMAIN jobs)
Ids == DOMAIN jobs

\* the ids 0..n-1 in insertion order
IdSeq(n) == [k \in 1..n |-> k - 1]

\* &job{id: e.Len(), Fn: fn} / &job{id: e.Len(), Cmd: cmd}.  Args is
\* Cmd.Args where the command of the job is followed; Stdout is "nil",
\* "pw" (the writer of WithInterleavedOutput) or "buf" (the buffer of
\* CombinedOutput) and stands for Cmd.Stdout and Cmd.Stderr; Started is
\* Cmd.Process != nil; Fn is "nil" for a command, "fn" for the function
\* registered, "wrapped" for a closure of WithInterleavedOutput whose fn is
\* set, "spent" for a closure around one that has set its fn to nil
NewJob(id, p) ==
    [id |-> id, payload |-> p, displayName |-> "", DependsOn |-> <<>>,
     status |-> JobStatePending, Res |-> "", Err |-> NoErr, Args |-> <<>>,
     Stdout |-> "nil", Started |-> FALSE,
     Fn |-> IF p = "cmd" THEN "nil" ELSE "fn"]

IsState(j, jobState) == StatusIs(jobs[j].status, jobState)

\* the jobs of js whose status has the Failed bit
FailedJobsOf(js) == {j \in DOMAIN js : StatusIs(js[j].status, JobStateFailed)}

\* number of dependency declarations in the job list js
TotalDeps(js) ==
    SeqSum([k \in 1..Cardinality(DOMAIN js) |-> Len(js[k - 1].DependsOn)])

(* ----------------------- Kahn's algorithm ----------------------------- *)
\* a loop that enqueues every job whose counter it decrements
RECURSIVE RelaxEager(_, _)
RelaxEager(list, st) ==
    IF list = <<>> THEN st
    ELSE LET to == Head(list)
         IN RelaxEager(Tail(list),
                       [count |-> [st.count EXCEPT ![to] = @ - 1],
                        queue |-> Append(st.queue, to)])

\* for _, to := range list { dependentCount[to]--; if 0 then enqueue }
RECURSIVE Relax(_, _)
Relax(list, st) ==
    IF list = <<>> THEN st
    ELSE LET to == Head(list)
             c == st.count[to] - 1
         IN Relax(Tail(list),
                  [count |-> [st.count EXCEPT ![to] = c],
                   queue |-> IF c = 0 THEN Append(st.queue, to) ELSE st.queue])

\* a count that takes a dependency declared several times by a job once
AcyclicDependentCountDistinct(js) ==
    [k \in DOMAIN js |->
        SeqSum([m \in 1..Cardinality(DOMAIN js) |->
                    IF Occurrences(js[m - 1].DependsOn, k) > 0 THEN 1 ELSE 0])]

\* IsAcyclic: dependentCount[to.id]++ for every declared dependency
AcyclicDependentCount(js) ==
    [k \in DOMAIN js |->
        SeqSum([m \in 1..Cardinality(DOMAIN js) |->
                    Occurrences(js[m - 1].DependsOn, k)])]

\* the jobs whose count is zero, in insertion order
StartQueue(n, count) == SelectSeq(IdSeq(n), LAMBDA k : count[k] = 0)

\* IsAcyclic: the loop over the queue; returns index
RECURSIVE KahnLoop(_, _, _)
KahnLoop(js, st, index) ==
    IF st.queue = <<>> THEN index
    ELSE LET at == Head(st.queue)
         IN KahnLoop(js,
                     Relax(js[at].DependsOn,
                           [count |-> st.count, queue |-> Tail(st.queue)]),
                     index + 1)

\* number of jobs IsAcyclic takes off its queue
KahnIndex(js) ==
    LET n == Cardinality(DOMAIN js)
        count == AcyclicDependentCount(js)
    IN KahnLoop(js, [count |-> count, queue |-> StartQueue(n, count)], 0)

\* JobExecutor.IsAcyclic
IsAcyclic(js) ==
    LET length == Cardinality(DOMAIN js)
    IN IF length < 1 THEN TRUE ELSE KahnIndex(js) = length

\* dagExecute: adjacencyList[to.id] = append(adjacencyList[to.id], job.id)
RECURSIVE Repeat(_, _)
Repeat(x, n) == IF n = 0 THEN <<>> ELSE <<x>> \o Repeat(x, n - 1)

RECURSIVE DependentsOf(_, _, _)
DependentsOf(js, to, m) ==
    IF m >= Cardinality(DOMAIN js) THEN <<>>
    ELSE Repeat(m, Occurrences(js[m].DependsOn, to)) \o DependentsOf(js, to, m + 1)

\* an edge list that holds a dependent once per job it depends on
DagAdjacencyListDistinct(js) ==
    [k \in DOMAIN js |->
        SelectSeq(IdSeq(Cardinality(DOMAIN js)),
                  LAMBDA m : Occurrences(js[m].DependsOn, k) > 0)]

DagAdjacencyList(js) == [k \in DOMAIN js |-> DependentsOf(js, k, 0)]

\* a count of one for every job that declares a dependency
DagDependentCountPerJob(js) ==
    [k \in DOMAIN js |-> IF js[k].DependsOn # <<>> THEN 1 ELSE 0]

\* dagExecute: dependentCount[job.id]++ for every declared dependency
DagDependentCount(js) == [k \in DOMAIN js |-> Len(js[k].DependsOn)]

(* ----------------------------- handlers ------------------------------- *)
NoJobs == [k \in {} |-> 0]

\* the handler WithInterleavedOutput registers on onJobsStart
InterleavedHandler == [kind |-> "fn", name |-> "interleaved", run |-> 0]

\* what that handler does to a job: Cmd.Stdout and Cmd.Stderr are set to a
\* prefixed writer, or job.Fn to a closure over fn := job.Fn
InterleaveJob(job) ==
    IF job.payload = "cmd" THEN [job EXCEPT !.Stdout = "pw"]
    ELSE [job EXCEPT !.Fn = IF @ = "spent" THEN "spent" ELSE "wrapped"]

\* a nil jobEventHandler / jobsEventHandler
NilHandler == [kind |-> "nil", name |-> "", run |-> 0]

\* a handler the caller registers
UserHandler(name) == [kind |-> "fn", name |-> name, run |-> 0]

\* the closure over errs that the r-th scheduling call registers with OnJobDone
ErrsHandler(r) == [kind |-> "fn", name |-> "errs", run |-> r]

\* a composition that drops the handler registered before
AugmentReplace(fn, decoratorFn) == decoratorFn

\* augmentJobHandler / augmentJobsHandler
augmentJobHandler(fn, decoratorFn) ==
    IF fn.kind = "nil" THEN decoratorFn
    ELSE [kind |-> "seq", fn |-> fn, decoratorFn |-> decoratorFn]

\* the handlers a call of h invokes, in order: fn(jobs, jobId) then
\* decoratorFn(jobs, jobId); a nil handler is not called
RECURSIVE Calls(_)
Calls(h) ==
    IF h.kind = "nil" THEN <<>>
    ELSE IF h.kind = "fn" THEN <<h>>
    ELSE Calls(h.fn) \o Calls(h.decoratorFn)

\* &executeOptions{}
NilOpts ==
    [onJobsStart |-> NilHandler, onJobStart |-> NilHandler,
     onJobDone |-> NilHandler, onJobsDone |-> NilHandler]

\* e.opts.onJobDone = augmentJobHandler(e.opts.onJobDone, fn)
OnJobDone(o, fn) == [o EXCEPT !.onJobDone = augmentJobHandler(@, fn)]
\* e.opts.onJobsDone = augmentJobsHandler(e.opts.onJobsDone, fn)
OnJobsDone(o, fn) == [o EXCEPT !.onJobsDone = augmentJobHandler(@, fn)]
\* e.opts.onJobStart = augmentJobHandler(e.opts.onJobStart, fn)
OnJobStart(o, fn) == [o EXCEPT !.onJobStart = augmentJobHandler(@, fn)]
\* e.opts.onJobsStart = augmentJobsHandler(e.opts.onJobsStart, fn)
OnJobsStart(o, fn) == [o EXCEPT !.onJobsStart = augmentJobHandler(@, fn)]

\* no handler has been registered
NoneRegistered ==
    [onJobsStart |-> <<>>, onJobStart |-> <<>>, onJobDone |-> <<>>,
     onJobsDone |-> <<>>]

\* no event has been fired on the jobs of S
NotSeen == 0 - 1
NoLog(S) ==
    [jobsStart |-> <<>>, jobStart |-> [j \in S |-> <<>>],
     jobDone |-> [j \in S |-> <<>>], jobsDone |-> <<>>]
NoSaw(S) ==
    [jobsStart |-> NoJobs, jobStart |-> [j \in S |-> NotSeen],
     jobDone |-> [j \in S |-> NotSeen], jobsDone |-> NoJobs]

\* opts.onJobsStart(jobs): the job list once the handlers have returned
FireOnJobsStart(js, o) ==
    IF \E k \in 1..Len(Calls(o.onJobsStart)) :
            Calls(o.onJobsStart)[k] = InterleavedHandler
        THEN [j \in DOMAIN js |-> InterleaveJob(js[j])]
        ELSE js

\* the status of every job of js, as a callback given js reads it
StatusOf(js) == [j \in DOMAIN js |-> js[j].status]

(* ------------------------- slices and maps ---------------------------- *)
\* a nil slice: no backing array, len 0, cap 0
NilSlice == [arr |-> 0, off |-> 0, len |-> 0, cap |-> 0]

\* the capacity append gives the new backing array of a slice of pointers
\* or ints of capacity c that is full (small slices double)
GrowCap(c) == IF c = 0 THEN 1 ELSE 2 * c

\* s[k - 1], where h holds the backing arrays
SliceGet(h, s, k) == h[s.arr][s.off + k]

\* the elements of the slice s
SliceSeq(h, s) == [k \in 1..s.len |-> h[s.arr][s.off + k]]

\* append(s, v): writes v after the last element in the backing array of
\* s when len(s) < cap(s), else in a new array it copies s to; gives the
\* arrays and the slice returned (-1 is an element never written)
GoAppend(h, s, v) ==
    IF s.len < s.cap
        THEN [heap |-> [h EXCEPT ![s.arr][s.off + s.len + 1] = v],
              slice |-> [s EXCEPT !.len = @ + 1]]
        ELSE LET c == GrowCap(s.cap)
                 array == [k \in 1..c |->
                             IF k <= s.len THEN h[s.arr][s.off + k]
                             ELSE IF k = s.len + 1 THEN v ELSE -1]
             IN [heap |-> Append(h, array),
                 slice |-> [arr |-> Len(h) + 1, off |-> 0,
                            len |-> s.len + 1, cap |-> c]]

\* s[1:]
SliceTail(s) == [s EXCEPT !.off = @ + 1, !.len = @ - 1, !.cap = @ - 1]

\* m[k] of a map with int values: 0 for a key that is not in the map
MapInt(m, k) == IF k \in DOMAIN m THEN m[k] ELSE 0

\* m[k] of a map with slice values: nil for a key that is not in the map
MapSlice(m, k) == IF k \in DOMAIN m THEN m[k] ELSE NilSlice

\* m[k] = v
MapSet(m, k, v) == [x \in DOMAIN m \cup {k} |-> IF x = k THEN v ELSE m[x]]

\* no job is registered and IsAcyclic has not been called.  heap holds the
\* backing arrays, ejobs is the slice e.jobs, DependsOn the slice
\* job.DependsOn of every job; the elements of both are the jobs pointed
\* to, named by their id.  base is the number of arrays when the call was
\* entered; length, adjacencyList, dependentCount, queue, index and at are
\* the locals of the call, i and k the positions of its range loops;
\* results holds what the calls since the last registration returned
NoKahn ==
    [pc |-> "idle", heap |-> <<>>, ejobs |-> NilSlice, DependsOn |-> NoJobs,
     base |-> 0, length |-> 0, i |-> 0, k |-> 0, adjacencyList |-> NoJobs,
     dependentCount |-> NoJobs, queue |-> NilSlice, index |-> 0, at |-> 0,
     results |-> <<>>]

(* ------------------------------- Init --------------------------------- *)

\* no earlier run of an identical JobSet has been recorded
NoPrev == [mode |-> "none", status |-> NoJobs, keys |-> {}]

BoolStr(b) == IF b THEN "true" ELSE "false"

\* no channel has been replaced while a run was in progress
NoChan == [cap |-> 0, len |-> 0]

\* no registration call has been followed
NoCall == [op |-> "none", values |-> <<>>, before |-> NoJobs,
           panicked |-> FALSE]

\* NewExecutor(), after the package init() has called
\* SetMaxConcurrentJobs(runtime.GOMAXPROCS(0))
\* no second executor has been run
NoPeer ==
    [mode |-> "none", pc |-> "config", cur |-> 0, jobs |-> NoJobs,
     g |-> NoJobs, wg |-> 0, adjacencyList |-> NoJobs,
     dependentCount |-> NoJobs, jobQueue |-> <<>>, doneJob |-> 0]

\* no job is followed write by write
NoCommit ==
    [kind |-> "none", payload |-> "ok",
     Res |-> "", Err |-> NoErr, status |-> JobStatePending,
     writer |-> FALSE, locks |-> 0, unlocks |-> 0, fatal |-> FALSE,
     depErr |-> FALSE, before |-> [Res |-> "", Err |-> NoErr],
     at |-> 0, reader |-> "idle",
     seen |-> [done |-> FALSE, Err |-> NoErr, Res |-> ""]]

InitExecutor ==
    /\ jobs = NoJobs
    /\ limiterCap = GOMAXPROCS
    /\ limiterLen = 0
    /\ mode = "none"
    /\ pc = "config"
    /\ cur = 0
    /\ adjacencyList = NoJobs
    /\ dependentCount = NoJobs
    /\ jobQueue = <<>>
    /\ doneJob = 0
    /\ doneChanClosed = FALSE
    /\ wg = 0
    /\ g = NoJobs
    /\ errs = NoJobs
    /\ res = NoJobs
    /\ startsCalled = 0
    /\ startCalled = NoJobs
    /\ doneCalled = NoJobs
    /\ donesCalled = 0
    /\ invoked = NoJobs
    /\ dagCalled = 0
    /\ acyclic = "unknown"
    /\ prev = NoPrev
    /\ opts = NilOpts
    /\ log = NoLog({})
    /\ saw = NoSaw({})
    /\ runs = 0
    /\ registered = NoneRegistered
    /\ capArg = GOMAXPROCS
    /\ oldChan = NoChan
    /\ stale = {}
    /\ staleMain = FALSE
    /\ reconfigs = 0
    /\ lastCall = NoCall
    /\ added = 0
    /\ peer = NoPeer
    /\ commit = NoCommit
    /\ kahn = NoKahn
    /\ late = 0

\* job.IsState has not been called on a job built by hand
NoIsStateCall == [status |-> 0, jobState |-> 0, called |-> FALSE, res |-> FALSE]

Init == InitExecutor /\ isState = NoIsStateCall

run == <<mode, pc, wg, g, errs, res, invoked, dagCalled, acyclic, prev>>

(* --------------------------- registration ----------------------------- *)
\* a registration that numbers the jobs from 1
AppendJobFromOne(js, p) ==
    LET n == Cardinality(DOMAIN js)
    IN [k \in 0..n |-> IF k < n THEN js[k] ELSE NewJob(n + 1, p)]

\* e.jobs = append(e.jobs, &job{id: e.Len(), ...})
AppendJob(js, p) ==
    LET n == Cardinality(DOMAIN js)
    IN [k \in 0..n |-> IF k < n THEN js[k] ELSE NewJob(n, p)]

\* AddJob / AddJobFns / AddJobCmds with one supported payload, on an
\* executor that holds fewer than max jobs
RegisterJob(p, max) ==
    /\ pc = "config"
    /\ JobsLen < max
    /\ jobs' = AppendJob(jobs, p)
    /\ acyclic' = "unknown"
    /\ UNCHANGED <<obs, limiter, sched, hooks, mode, pc, wg, g, errs, res, invoked,
                   dagCalled, prev>>

AddJob(p) == RegisterJob(p, MaxJobs)

\* from.job.DependsOn = append(from.job.DependsOn, to.job), on an executor
\* with fewer than max declared dependencies
RegisterDependency(from, to, max) ==
    /\ pc = "config"
    /\ TotalDeps(jobs) < max
    /\ jobs' = [jobs EXCEPT ![from].DependsOn = Append(@, to)]
    /\ acyclic' = "unknown"
    /\ UNCHANGED <<obs, limiter, sched, hooks, mode, pc, wg, g, errs, res, invoked,
                   dagCalled, prev>>

AddJobDependency(from, to) == RegisterDependency(from, to, MaxDeps)

\* a capacity that is the argument, whatever it is
NewCapUnchecked(n) == n

\* the capacity SetMaxConcurrentJobs(n) gives the new channel
NewCap(n) == IF n < 1 THEN GOMAXPROCS ELSE n

\* SetMaxConcurrentJobs(n): limiterChan = make(chan struct{}, n)
ReplaceLimiter(n) ==
    /\ limiterCap' = NewCap(n)
    /\ limiterLen' = 0

\* the caller calls SetMaxConcurrentJobs(n) before it calls Execute or
\* DagExecute
SetMaxConcurrentJobs(n) ==
    /\ pc = "config"
    /\ ReplaceLimiter(n)
    /\ UNCHANGED <<obs, jobs, sched, hooks, run>>

(* ------------------------ scheduling: entry --------------------------- *)
\* a goroutine that has not been started: its position, the index of the
\* dependency it checks, the locals res and err of run, and whether it is
\* unwinding from a panic
NotStarted ==
    [pc |-> "none", k |-> 0, res |-> "", err |-> NoErr, panicking |-> FALSE]

\* state of the per-run bookkeeping when a scheduling call is entered
FreshRun(r) ==
    /\ runs' = r + 1
    /\ log' = NoLog(Ids)
    /\ saw' = NoSaw(Ids)
    /\ errs' = [j \in Ids |-> NoErr]
    /\ g' = [j \in Ids |-> NotStarted]
    /\ startsCalled' = 0
    /\ startCalled' = [j \in Ids |-> 0]
    /\ doneCalled' = [j \in Ids |-> 0]
    /\ donesCalled' = 0
    /\ invoked' = [j \in Ids |-> 0]

\* the goroutines of the call that has returned that are between
\* wg.Done() and <-limiterChan: wg.Wait() does not wait for their receive
Lingering == Cardinality({j \in DOMAIN g : g[j].pc = "release"})

\* JobExecutor.Execute up to the call of execute, on an executor whose
\* handlers are o, registered as reg says, and that has entered r
\* scheduling calls; the goroutines of an earlier call go on
ExecuteEntry(o, reg, r) ==
    /\ FreshRun(r)
    /\ late' = late + Lingering
    /\ opts' = OnJobDone(o, ErrsHandler(r + 1))
    /\ registered' = [reg EXCEPT !.onJobDone = Append(@, ErrsHandler(r + 1))]
    /\ mode' = "flat"
    /\ pc' = "jobsStart"
    /\ res' = NoJobs
    /\ UNCHANGED <<limiter, sched, wg, dagCalled, acyclic, isState, capArg,
                   replaced, regs, peer, commit, kahn>>

\* the caller calls Execute
Execute ==
    /\ pc = "config"
    /\ ExecuteEntry(opts, registered, runs)
    /\ UNCHANGED <<jobs, prev>>

\* an error map that leaves out the jobs that declare no dependency
CyclicResultDependentsOnly(js) ==
    [j \in {k \in DOMAIN js : js[k].DependsOn # <<>>} |-> ErrCyclicDependencyDetected]

\* for jobId := range e.jobs { res[jobId] = ErrCyclicDependencyDetected }
CyclicResult(js) == [j \in DOMAIN js |-> ErrCyclicDependencyDetected]

\* JobExecutor.DagExecute on the job list js up to the call of dagExecute,
\* or its early return
DagExecuteEntry(js, o, reg, r) ==
    /\ FreshRun(r)
    /\ late' = late + Lingering
    /\ opts' = OnJobDone(o, ErrsHandler(r + 1))
    /\ registered' = [reg EXCEPT !.onJobDone = Append(@, ErrsHandler(r + 1))]
    /\ mode' = "dag"
    /\ acyclic' = BoolStr(IsAcyclic(js))
    /\ IF IsAcyclic(js)
          THEN pc' = "jobsStart" /\ res' = NoJobs
          ELSE pc' = "returned" /\ res' = CyclicResult(js)
    /\ UNCHANGED <<limiter, sched, wg, dagCalled, isState, capArg, replaced,
                   regs, peer, commit, kahn>>

\* the caller calls DagExecute
DagExecute ==
    /\ pc = "config"
    /\ DagExecuteEntry(jobs, opts, registered, runs)
    /\ UNCHANGED <<jobs, prev>>

\* a call of JobExecutor.IsAcyclic by the caller, from the call to the
\* return
IsAcyclicCall ==
    /\ pc = "config"
    /\ acyclic' = BoolStr(IsAcyclic(jobs))
    /\ UNCHANGED <<obs, jobs, limiter, sched, hooks, mode, pc, wg, g, errs, res,
                   invoked, dagCalled, prev>>

(* ------------------------ scheduling: execute ------------------------- *)
\* execute: onJobsStart, wg.Add(len(jobs)), first iteration of the range loop
execute_JobsStart ==
    /\ pc = "jobsStart" /\ mode = "flat"
    /\ startsCalled' = startsCalled + 1
    /\ log' = [log EXCEPT !.jobsStart = @ \o Calls(opts.onJobsStart)]
    /\ saw' = [saw EXCEPT !.jobsStart = StatusOf(jobs)]
    /\ jobs' = FireOnJobsStart(jobs, opts)
    /\ wg' = JobsLen
    /\ cur' = 0
    /\ pc' = IF JobsLen = 0 THEN "wait" ELSE "acquire"
    /\ UNCHANGED <<opts, runs, registered, aux, limiter, adjacencyList, dependentCount, jobQueue,
                   doneJob, doneChanClosed, g, errs, res, mode, startCalled,
                   doneCalled, donesCalled, invoked, dagCalled, acyclic, prev>>

\* a limiter that never makes the sender wait
SlotFreeAlways == TRUE

\* a send on limiterChan goes through when the buffer is not full
SlotFree == limiterLen < limiterCap

\* limiterChan <- struct{}{}
Acquire ==
    /\ pc = "acquire"
    /\ ~staleMain
    /\ SlotFree
    /\ limiterLen' = limiterLen + 1
    /\ pc' = "setRunning"
    /\ UNCHANGED <<obs, jobs, limiterCap, sched, hooks, mode, wg, g, errs, res,
                   invoked, dagCalled, acyclic, prev>>

\* job.mutex.Lock(); job.status = JobStateRunning; job.mutex.Unlock()
SetRunning ==
    /\ pc = "setRunning"
    /\ jobs' = [jobs EXCEPT ![cur].status = JobStateRunning]
    /\ pc' = "jobStart"
    /\ UNCHANGED <<obs, limiter, sched, hooks, mode, wg, g, errs, res, invoked,
                   dagCalled, acyclic, prev>>

\* a goroutine that calls done() on entry instead of deferring it
SpawnedDoneFirst(j) == [g EXCEPT ![j].pc = "done", ![j].k = 1]

\* go job.run(...): the goroutine starts at the dependency check
Spawned(j) == [g EXCEPT ![j].pc = "run", ![j].k = 1]

\* a loop that goes over every other job
RangeAfterSkip(i) == i + 2

\* for i, child := range jobs: the index the loop takes after i
RangeAfter(i) == i + 1

\* execute: onJobStart, go job.run, next iteration of the range loop
execute_JobStart ==
    /\ pc = "jobStart" /\ mode = "flat"
    /\ startCalled' = [startCalled EXCEPT ![cur] = @ + 1]
    /\ log' = [log EXCEPT !.jobStart[cur] = @ \o Calls(opts.onJobStart)]
    /\ saw' = [saw EXCEPT !.jobStart[cur] = jobs[cur].status]
    /\ g' = Spawned(cur)
    /\ IF RangeAfter(cur) < JobsLen
          THEN cur' = RangeAfter(cur) /\ pc' = "acquire"
          ELSE cur' = cur /\ pc' = "wait"
    /\ UNCHANGED <<opts, runs, registered, aux, jobs, limiter, adjacencyList, dependentCount, jobQueue,
                   doneJob, doneChanClosed, mode, wg, errs, res, startsCalled,
                   doneCalled, donesCalled, invoked, dagCalled, acyclic, prev>>

\* a wait that returns at once
WaitGroupNoWait == TRUE

\* wg.Wait() returns when the counter of the WaitGroup is zero
WaitGroupZero == wg = 0

\* wg.Wait()
Wait ==
    /\ pc = "wait"
    /\ WaitGroupZero
    /\ pc' = "jobsDone"
    /\ UNCHANGED <<obs, jobs, limiter, sched, hooks, mode, wg, g, errs, res,
                   invoked, dagCalled, acyclic, prev>>

\* onJobsDone(jobs); dagExecute then runs its deferred close(doneChan)
JobsDone ==
    /\ pc = "jobsDone"
    /\ donesCalled' = donesCalled + 1
    /\ log' = [log EXCEPT !.jobsDone = @ \o Calls(opts.onJobsDone)]
    /\ saw' = [saw EXCEPT !.jobsDone = StatusOf(jobs)]
    /\ doneChanClosed' = (mode = "dag")
    /\ pc' = "collect"
    /\ UNCHANGED <<opts, runs, registered, aux, jobs, limiter, cur, adjacencyList, dependentCount, jobQueue,
                   doneJob, mode, wg, g, errs, res, startsCalled, startCalled,
                   doneCalled, invoked, dagCalled, acyclic, prev>>

\* a copy of errs that keeps the nil entries
CollectErrorsAll(es) == es

\* for jobId, err := range errs { if err != nil { res[jobId] = err } }
CollectErrors(es) == [j \in {k \in DOMAIN es : es[k] # NoErr} |-> es[j]]

\* Execute / DagExecute: build the JobsError map and return it
Return ==
    /\ pc = "collect"
    /\ res' = CollectErrors(errs)
    /\ pc' = "returned"
    /\ UNCHANGED <<obs, jobs, limiter, sched, hooks, mode, wg, g, errs, invoked,
                   dagCalled, acyclic, prev>>

(* ----------------------- scheduling: dagExecute ----------------------- *)
\* an outer loop that is left one completion early
JobsRemainButLast(done) == done < JobsLen - 1

\* an outer loop that takes one more turn after the last completion
JobsRemainOneMore(done) == done <= JobsLen

\* for doneJob < len(jobs): the condition of the outer loop of dagExecute
JobsRemain(done) == done < JobsLen

\* head of the loops of dagExecute: launch the next ready job, read
\* doneChan, or leave the loop
DagLoop(queue, done) ==
    IF JobsRemain(done)
        THEN IF queue # <<>>
                THEN cur' = Head(queue) /\ jobQueue' = Tail(queue) /\ pc' = "acquire"
                ELSE cur' = cur /\ jobQueue' = queue /\ pc' = "recv"
        ELSE cur' = cur /\ jobQueue' = queue /\ pc' = "wait"

\* a starter queue that holds every job
StarterQueueAll(n, count) == IdSeq(n)

\* for id := range jobs { if dependentCount[id] == 0 { enqueue } }
StarterQueue(n, count) == StartQueue(n, count)

\* dagExecute: onJobsStart, the edge lists, the starter queue, wg.Add
dagExecute_JobsStart ==
    /\ pc = "jobsStart" /\ mode = "dag"
    /\ dagCalled' = dagCalled + 1
    /\ startsCalled' = startsCalled + 1
    /\ log' = [log EXCEPT !.jobsStart = @ \o Calls(opts.onJobsStart)]
    /\ saw' = [saw EXCEPT !.jobsStart = StatusOf(jobs)]
    /\ adjacencyList' = DagAdjacencyList(jobs)
    /\ dependentCount' = DagDependentCount(jobs)
    /\ wg' = JobsLen
    /\ doneJob' = 0
    /\ doneChanClosed' = FALSE
    /\ DagLoop(StarterQueue(JobsLen, DagDependentCount(jobs)), 0)
    /\ jobs' = FireOnJobsStart(jobs, opts)
    /\ UNCHANGED <<opts, runs, registered, aux, limiter, mode, g, errs, res, startCalled, doneCalled,
                   donesCalled, invoked, acyclic, prev>>

\* dagExecute: onJobStart, go job.run, back to the head of the loops
dagExecute_JobStart ==
    /\ pc = "jobStart" /\ mode = "dag"
    /\ startCalled' = [startCalled EXCEPT ![cur] = @ + 1]
    /\ log' = [log EXCEPT !.jobStart[cur] = @ \o Calls(opts.onJobStart)]
    /\ saw' = [saw EXCEPT !.jobStart[cur] = jobs[cur].status]
    /\ g' = Spawned(cur)
    /\ DagLoop(jobQueue, doneJob)
    /\ UNCHANGED <<opts, runs, registered, aux, jobs, limiter, adjacencyList, dependentCount, doneJob,
                   doneChanClosed, mode, wg, errs, res, startsCalled,
                   doneCalled, donesCalled, invoked, dagCalled, acyclic, prev>>

\* a loop over the dependents that enqueues each of them
DependentsRelaxEager(list, st) == RelaxEager(list, st)

\* dagExecute: for _, to := range adjacencyList[doneId] {
\*     dependentCount[to]--; if dependentCount[to] == 0 { enqueue } }
DependentsRelax(list, st) == Relax(list, st)

\* doneChan <- job.id meets for doneId := range doneChan: the counters of
\* the dependents of doneId are decremented, the ready ones enqueued
dagExecute_Receive(j) ==
    /\ pc = "recv" /\ mode = "dag"
    /\ g[j].pc = "post"
    /\ LET st == DependentsRelax(adjacencyList[j],
                                 [count |-> dependentCount, queue |-> jobQueue])
       IN /\ dependentCount' = st.count
          /\ doneJob' = doneJob + 1
          /\ DagLoop(st.queue, doneJob + 1)
    /\ g' = [g EXCEPT ![j].pc = "end"]
    /\ UNCHANGED <<obs, jobs, limiter, adjacencyList, doneChanClosed, hooks, mode,
                   wg, errs, res, invoked, dagCalled, acyclic, prev>>

(* ------------------------------ job.run ------------------------------- *)
\* a dependency check that only asks for the dependency to be finished
DependencyDone(d) == IsState(d, JobStateDone)

\* a dependency check that lets a job run when its dependency did not fail
\* on its own work but on a dependency of its own
DependencyOwnFailureOnly(d) ==
    IsState(d, JobStateSucceed) \/ jobs[d].Err = ErrRequiredJobFailed

\* a dependency check that also fails a job when any job of the set, a
\* dependency or not, has failed
DependencySideways(d) == IsState(d, JobStateSucceed) /\ FailedJobsOf(jobs) = {}

\* job.IsState(JobStateSucceed) on a dependency
DependencyOk(d) == IsState(d, JobStateSucceed)

\* one turn of: for _, job := range dependsOn { if !job.IsState(JobStateSucceed) }
run_CheckDependency(j) ==
    /\ g[j].pc = "run"
    /\ g[j].k <= Len(jobs[j].DependsOn)
    /\ g' = [g EXCEPT ![j] =
                IF DependencyOk(jobs[j].DependsOn[g[j].k])
                    THEN [g[j] EXCEPT !.k = @ + 1]
                    ELSE [g[j] EXCEPT !.pc = "depErr"]]
    /\ UNCHANGED <<obs, jobs, limiter, sched, hooks, mode, pc, wg, errs, res,
                   invoked, dagCalled, acyclic, prev>>

\* a terminal status that does not look at the error
TerminalStatusSucceed(err) == BitOr(JobStateDone, JobStateSucceed)

\* a terminal status without the Done bit
TerminalStatusBare(err) ==
    IF err # NoErr THEN JobStateFailed ELSE JobStateSucceed

\* terminal status of a job whose error is err
TerminalStatus(err) ==
    IF err # NoErr THEN BitOr(JobStateDone, JobStateFailed)
    ELSE BitOr(JobStateDone, JobStateSucceed)

\* a return on a failed dependency that runs none of done() but the send
\* of the id
AfterDependencyFailureBare == "post"

\* a return on a failed dependency that skips the onJobDone callback
AfterDependencyFailureSilent == "wgDone"

\* defer done(): the early return of run on a failed dependency calls done()
AfterDependencyFailure == "done"

\* if hasDepErr { j.Err = ErrRequiredJobFailed; j.status = Done|Failed; return }
run_DependencyFailed(j) ==
    /\ g[j].pc = "depErr"
    /\ jobs' = [jobs EXCEPT ![j].Err = ErrRequiredJobFailed,
                            ![j].status = BitOr(JobStateDone, JobStateFailed)]
    /\ g' = [g EXCEPT ![j].pc = AfterDependencyFailure]
    /\ UNCHANGED <<obs, limiter, sched, hooks, mode, pc, wg, errs, res, invoked,
                   dagCalled, acyclic, prev>>

\* a return of run after the work that skips the onJobDone callback
AfterWorkSilent == "wgDone"

\* defer done(): the return of run after the commit calls done()
AfterWork == "done"

\* res, err = j.Cmd.CombinedOutput() / err = j.Cmd.Run() / res, err :=
\* j.Fn(): the work runs without the lock of the job, which is Running with
\* the Res and Err it had; the goroutine is then at j.mutex.Lock()
run_Work(j) ==
    /\ g[j].pc = "run"
    /\ g[j].k > Len(jobs[j].DependsOn)
    /\ jobs[j].Fn # "spent"
    /\ invoked' = [invoked EXCEPT ![j] = @ + 1]
    /\ jobs' = [jobs EXCEPT ![j] = JobAfterWork(@)]
    /\ g' = [g EXCEPT ![j].pc = "commit",
                      ![j].res = JobRes(jobs[j]),
                      ![j].err = JobErr(jobs[j])]
    /\ UNCHANGED <<obs, limiter, sched, hooks, mode, pc, wg, errs, res,
                   dagCalled, acyclic, prev>>

\* j.mutex.Lock(); j.Res = res; j.Err = err; the terminal status;
\* j.mutex.Unlock(); return
run_Commit(j) ==
    /\ g[j].pc = "commit"
    /\ jobs' = [jobs EXCEPT ![j].Res = g[j].res,
                            ![j].Err = g[j].err,
                            ![j].status = TerminalStatus(g[j].err)]
    /\ g' = [g EXCEPT ![j].pc = AfterWork]
    /\ UNCHANGED <<obs, limiter, sched, hooks, mode, pc, wg, errs, res, invoked,
                   dagCalled, acyclic, prev>>

\* the handler Execute registers with OnJobDone
ExecuteHandler(es, j) ==
    IF jobs[j].Err # NoErr THEN [es EXCEPT ![j] = jobs[j].Err] ELSE es

\* a handler that records nothing
DagExecuteHandlerNone(es, j) == es

\* the handler DagExecute registers with OnJobDone
DagExecuteHandler(es, j) ==
    IF jobs[j].Err # NoErr THEN [es EXCEPT ![j] = jobs[j].Err] ELSE es

\* a done() of dagExecute that posts the id right after the callback, before
\* wg.Done and the receive on limiterChan
AfterOnJobDonePostFirst == IF mode = "dag" THEN "post" ELSE "wgDone"

\* done(): the deferred calls run in reverse order, wg.Done() right after
\* the body of done()
AfterOnJobDone == "wgDone"

\* done(): opts.onJobDone(jobs, jobIndex)
done_OnJobDone(j) ==
    /\ g[j].pc = "done"
    /\ doneCalled' = [doneCalled EXCEPT ![j] = @ + 1]
    /\ log' = [log EXCEPT !.jobDone[j] = @ \o Calls(opts.onJobDone)]
    /\ saw' = [saw EXCEPT !.jobDone[j] = jobs[j].status]
    /\ errs' = IF \E k \in 1..Len(Calls(opts.onJobDone)) :
                     Calls(opts.onJobDone)[k] = ErrsHandler(runs)
                THEN IF mode = "dag" THEN DagExecuteHandler(errs, j)
                     ELSE ExecuteHandler(errs, j)
                ELSE errs
    /\ g' = [g EXCEPT ![j].pc = AfterOnJobDone]
    /\ UNCHANGED <<opts, runs, registered, aux, jobs, limiter, sched, startsCalled, startCalled,
                   donesCalled, mode, pc, wg, res, invoked, dagCalled,
                   acyclic, prev>>

\* done(): defer wg.Done()
done_WgDone(j) ==
    /\ g[j].pc = "wgDone"
    /\ wg' = wg - 1
    /\ g' = [g EXCEPT ![j].pc = "release"]
    /\ UNCHANGED <<obs, jobs, limiter, sched, hooks, mode, pc, errs, res, invoked,
                   dagCalled, acyclic, prev>>

\* position of the goroutine after it has released its slot
AfterRelease == IF mode = "dag" THEN "post" ELSE "end"

\* a done() that leaves its token in the channel
SlotsAfterReleaseKept == limiterLen

\* <-limiterChan takes one token out of the channel
SlotsAfterRelease == limiterLen - 1

\* done(): <-limiterChan
done_Release(j) ==
    /\ g[j].pc = "release"
    /\ limiterLen > 0
    /\ limiterLen' = SlotsAfterRelease
    /\ g' = [g EXCEPT ![j].pc = AfterRelease]
    /\ UNCHANGED <<obs, jobs, limiterCap, sched, hooks, mode, pc, wg, errs, res,
                   invoked, dagCalled, acyclic, prev>>

\* done() of a goroutine of a flat run that has returned: <-limiterChan,
\* on the channel the run in progress sends on
late_Release ==
    /\ late > 0
    /\ limiterLen > 0
    /\ limiterLen' = SlotsAfterRelease
    /\ late' = late - 1
    /\ UNCHANGED <<opts, log, saw, runs, registered, isState, capArg, replaced,
                   regs, peer, commit, kahn, jobs, limiterCap, sched, hooks, run>>

(* ------------------------------- Next --------------------------------- *)
Register ==
    \/ \E p \in Payloads : AddJob(p)
    \/ \E from \in Ids, to \in Ids : AddJobDependency(from, to)
    \/ \E n \in 0..MaxCap : SetMaxConcurrentJobs(n)

MainStep ==
    \/ execute_JobsStart
    \/ execute_JobStart
    \/ dagExecute_JobsStart
    \/ dagExecute_JobStart
    \/ Acquire
    \/ SetRunning
    \/ Wait
    \/ JobsDone
    \/ Return

JobStep(j) ==
    \/ run_CheckDependency(j)
    \/ run_DependencyFailed(j)
    \/ run_Work(j)
    \/ run_Commit(j)
    \/ done_OnJobDone(j)
    \/ done_WgDone(j)
    \/ done_Release(j)
    \/ dagExecute_Receive(j)

Next ==
    \/ Register
    \/ Execute
    \/ DagExecute
    \/ MainStep
    \/ \E j \in DOMAIN g : JobStep(j)

Spec == Init /\ [][Next]_vars

\* the goroutine of job j, once the run has created it
GoStep(j) == j \in DOMAIN g /\ JobStep(j)

\* the Go scheduler lets every goroutine that can take a step take one
Fairness ==
    /\ WF_vars(MainStep)
    /\ \A j \in 0..(MaxJobs - 1) : WF_vars(GoStep(j))

SpecFair == Init /\ [][Next]_vars /\ Fairness

(* --------------- Execute against DagExecute, side by side ------------- *)
\* the jobs of js as a new executor registers them
FreshCopy(js) == [j \in DOMAIN js |-> NewJob(j, js[j].payload)]

OtherMode(m) == IF m = "flat" THEN "dag" ELSE "flat"

\* Once a run on a JobSet without dependencies has returned, the caller
\* records its outcome, registers the same payloads on a new executor and
\* calls the other scheduling entry point.
SecondRun ==
    /\ pc = "returned" /\ mode # "none"
    /\ prev.mode = "none"
    /\ TotalDeps(jobs) = 0
    /\ prev' = [mode |-> mode,
                status |-> [j \in Ids |-> jobs[j].status],
                keys |-> DOMAIN res]
    /\ jobs' = FreshCopy(jobs)
    /\ IF mode = "flat" THEN DagExecuteEntry(FreshCopy(jobs), NilOpts, NoneRegistered, 0)
       ELSE ExecuteEntry(NilOpts, NoneRegistered, 0)

NextCompare == Next \/ SecondRun \/ late_Release

SpecCompare == Init /\ [][NextCompare]_vars

(* ------------------- IsAcyclic on larger graphs ----------------------- *)
\* registration of up to MaxGraphJobs jobs and MaxGraphDeps dependencies,
\* with calls of IsAcyclic in between; no scheduling call
AddGraphJob == RegisterJob("ok", MaxGraphJobs)

AddGraphDependency(from, to) == RegisterDependency(from, to, MaxGraphDeps)

NextGraph ==
    \/ AddGraphJob
    \/ \E from \in Ids, to \in Ids : AddGraphDependency(from, to)
    \/ IsAcyclicCall

SpecGraph == Init /\ [][NextGraph]_vars

(* ---------------- IsAcyclic, statement by statement ------------------ *)
\* what the actions that follow the memory of the executor leave alone
kahnFrame == <<opts, log, saw, runs, registered, isState, capArg, replaced,
               regs, peer, commit, late, limiter, sched, hooks, mode, pc, wg,
               g, errs, res, invoked, dagCalled, prev>>

\* the statements of a call of IsAcyclic are being executed
InCall == kahn.pc \in {"count", "start", "loop", "relax"}

\* e.jobs = append(e.jobs, res.job) of AddJob, in the memory
kahn_AddJob(p) ==
    /\ pc = "config" /\ ~InCall
    /\ JobsLen < MaxKahnJobs
    /\ jobs' = AppendJob(jobs, p)
    /\ acyclic' = "unknown"
    /\ LET r == GoAppend(kahn.heap, kahn.ejobs, JobsLen)
       IN kahn' = [kahn EXCEPT !.pc = "idle", !.heap = r.heap,
                               !.ejobs = r.slice,
                               !.DependsOn = MapSet(@, JobsLen, NilSlice),
                               !.results = <<>>]
    /\ UNCHANGED kahnFrame

\* from.job.DependsOn = append(from.job.DependsOn, to.job), in the memory
kahn_AddJobDependency(from, to) ==
    /\ pc = "config" /\ ~InCall
    /\ TotalDeps(jobs) < MaxKahnDeps
    /\ jobs' = [jobs EXCEPT ![from].DependsOn = Append(@, to)]
    /\ acyclic' = "unknown"
    /\ LET r == GoAppend(kahn.heap, kahn.DependsOn[from], to)
       IN kahn' = [kahn EXCEPT !.pc = "idle", !.heap = r.heap,
                               !.DependsOn[from] = r.slice,
                               !.results = <<>>]
    /\ UNCHANGED kahnFrame

\* IsAcyclic, up to the first range loop: length := e.Len(), the early
\* return on an empty executor, the two make(map...)
kahn_Call ==
    /\ pc \in {"config", "returned"} /\ ~InCall
    /\ Len(kahn.results) < MaxKahnCalls
    /\ IF kahn.ejobs.len < 1
          THEN /\ kahn' = [kahn EXCEPT !.pc = "returned",
                                       !.results = Append(@, TRUE)]
               /\ acyclic' = BoolStr(TRUE)
          ELSE /\ kahn' = [kahn EXCEPT !.pc = "count",
                                       !.base = Len(kahn.heap),
                                       !.length = kahn.ejobs.len,
                                       !.adjacencyList = NoJobs,
                                       !.dependentCount = NoJobs,
                                       !.i = 0, !.k = 1]
               /\ UNCHANGED acyclic
    /\ UNCHANGED <<jobs, kahnFrame>>

\* var queue []int
QueueVarShared == [kahn.DependsOn[0] EXCEPT !.len = 0]

QueueVar == NilSlice

\* one turn of for _, job := range e.jobs { for _, to := range
\* job.DependsOn { adjacencyList[job.id] = append(adjacencyList[job.id],
\* to.id); dependentCount[to.id]++ } }, then var queue []int
kahn_Count ==
    /\ kahn.pc = "count"
    /\ IF kahn.i = kahn.length
          THEN kahn' = [kahn EXCEPT !.pc = "start", !.i = 0, !.queue = QueueVar]
          ELSE LET job == SliceGet(kahn.heap, kahn.ejobs, kahn.i + 1)
                   deps == kahn.DependsOn[job]
               IN IF kahn.k > deps.len
                     THEN kahn' = [kahn EXCEPT !.i = @ + 1, !.k = 1]
                     ELSE LET to == SliceGet(kahn.heap, deps, kahn.k)
                              r == GoAppend(kahn.heap,
                                            MapSlice(kahn.adjacencyList, job), to)
                          IN kahn' = [kahn EXCEPT
                                 !.heap = r.heap,
                                 !.adjacencyList = MapSet(@, job, r.slice),
                                 !.dependentCount =
                                     MapSet(@, to, MapInt(@, to) + 1),
                                 !.k = @ + 1]
    /\ UNCHANGED <<jobs, acyclic, kahnFrame>>

\* one turn of for _, job := range e.jobs { if dependentCount[job.id] == 0
\* { queue = append(queue, job.id) } }, then index := 0
kahn_Start ==
    /\ kahn.pc = "start"
    /\ IF kahn.i = kahn.length
          THEN kahn' = [kahn EXCEPT !.pc = "loop", !.index = 0]
          ELSE LET job == SliceGet(kahn.heap, kahn.ejobs, kahn.i + 1)
                   r == GoAppend(kahn.heap, kahn.queue, job)
               IN IF MapInt(kahn.dependentCount, job) = 0
                     THEN kahn' = [kahn EXCEPT !.heap = r.heap,
                                               !.queue = r.slice, !.i = @ + 1]
                     ELSE kahn' = [kahn EXCEPT !.i = @ + 1]
    /\ UNCHANGED <<jobs, acyclic, kahnFrame>>

\* for len(queue) > 0 { at := queue[0]; queue = queue[1:]; index++ ...,
\* or return index == length: the arrays and the locals of the call are
\* no longer reachable
kahn_Loop ==
    /\ kahn.pc = "loop"
    /\ IF kahn.queue.len > 0
          THEN /\ kahn' = [kahn EXCEPT
                              !.pc = "relax",
                              !.at = SliceGet(kahn.heap, kahn.queue, 1),
                              !.queue = SliceTail(@),
                              !.index = @ + 1, !.k = 1]
               /\ UNCHANGED acyclic
          ELSE /\ kahn' = [NoKahn EXCEPT
                              !.pc = "returned",
                              !.heap = SubSeq(kahn.heap, 1, kahn.base),
                              !.ejobs = kahn.ejobs,
                              !.DependsOn = kahn.DependsOn,
                              !.results =
                                  Append(kahn.results, kahn.index = kahn.length)]
               /\ acyclic' = BoolStr(kahn.index = kahn.length)
    /\ UNCHANGED <<jobs, kahnFrame>>

\* one turn of for _, to := range e.jobs[at].DependsOn {
\* dependentCount[to.id]--; if dependentCount[to.id] == 0 { queue =
\* append(queue, to.id) } }
kahn_Relax ==
    /\ kahn.pc = "relax"
    /\ LET job == SliceGet(kahn.heap, kahn.ejobs, kahn.at + 1)
           deps == kahn.DependsOn[job]
       IN IF kahn.k > deps.len
             THEN kahn' = [kahn EXCEPT !.pc = "loop"]
             ELSE LET to == SliceGet(kahn.heap, deps, kahn.k)
                      c == MapInt(kahn.dependentCount, to) - 1
                      r == GoAppend(kahn.heap, kahn.queue, to)
                  IN IF c = 0
                        THEN kahn' = [kahn EXCEPT
                                 !.dependentCount = MapSet(@, to, c),
                                 !.heap = r.heap, !.queue = r.slice,
                                 !.k = @ + 1]
                        ELSE kahn' = [kahn EXCEPT
                                 !.dependentCount = MapSet(@, to, c),
                                 !.k = @ + 1]
    /\ UNCHANGED <<jobs, acyclic, kahnFrame>>

\* the statements of IsAcyclic after its entry
KahnStep == kahn_Count \/ kahn_Start \/ kahn_Loop \/ kahn_Relax

\* the caller calls IsAcyclic after the scheduling call, on up to
\* MaxKahnRunJobs jobs, or makes no scheduling call
RunFollowed == kahn.pc = "idle" /\ JobsLen <= MaxKahnRunJobs

\* registrations, calls of IsAcyclic with or without a scheduling call
\* before them
NextKahn ==
    \/ \E p \in Payloads : kahn_AddJob(p)
    \/ \E from \in Ids, to \in Ids : kahn_AddJobDependency(from, to)
    \/ kahn_Call
    \/ KahnStep
    \/ RunFollowed /\ Execute
    \/ RunFollowed /\ DagExecute
    \/ MainStep
    \/ \E j \in DOMAIN g : JobStep(j)

\* the goroutine in IsAcyclic goes on
SpecKahn == Init /\ [][NextKahn]_vars /\ WF_vars(KahnStep)

(* -------------------------- event handlers ---------------------------- *)
\* the handlers a caller registers
HandlerNames == {"first", "second"}

\* number of handlers the caller has registered
HandlerCount ==
    Len(registered.onJobsStart) + Len(registered.onJobStart)
        + Len(registered.onJobDone) + Len(registered.onJobsDone)

\* e.OnJobsStart(fn)
RegisterOnJobsStart(h) ==
    /\ pc = "config" /\ HandlerCount < MaxHandlers
    /\ opts' = OnJobsStart(opts, UserHandler(h))
    /\ registered' =
          [registered EXCEPT !.onJobsStart = Append(@, UserHandler(h))]
    /\ UNCHANGED <<jobs, limiter, sched, hooks, run, log, saw, runs, aux>>

\* e.OnJobStart(fn)
RegisterOnJobStart(h) ==
    /\ pc = "config" /\ HandlerCount < MaxHandlers
    /\ opts' = OnJobStart(opts, UserHandler(h))
    /\ registered' =
          [registered EXCEPT !.onJobStart = Append(@, UserHandler(h))]
    /\ UNCHANGED <<jobs, limiter, sched, hooks, run, log, saw, runs, aux>>

\* e.OnJobDone(fn)
RegisterOnJobDone(h) ==
    /\ pc = "config" /\ HandlerCount < MaxHandlers
    /\ opts' = OnJobDone(opts, UserHandler(h))
    /\ registered' =
          [registered EXCEPT !.onJobDone = Append(@, UserHandler(h))]
    /\ UNCHANGED <<jobs, limiter, sched, hooks, run, log, saw, runs, aux>>

\* e.OnJobsDone(fn)
RegisterOnJobsDone(h) ==
    /\ pc = "config" /\ HandlerCount < MaxHandlers
    /\ opts' = OnJobsDone(opts, UserHandler(h))
    /\ registered' =
          [registered EXCEPT !.onJobsDone = Append(@, UserHandler(h))]
    /\ UNCHANGED <<jobs, limiter, sched, hooks, run, log, saw, runs, aux>>

\* registration of up to MaxHookJobs jobs, of dependencies between them and
\* of up to MaxHandlers handlers
AddHookJob(p) == RegisterJob(p, MaxHookJobs)

AddHookDependency(from, to) == RegisterDependency(from, to, MaxHookDeps)

NextHooks ==
    \/ \E p \in Payloads : AddHookJob(p)
    \/ \E from \in Ids, to \in Ids : AddHookDependency(from, to)
    \/ \E h \in HandlerNames : RegisterOnJobsStart(h)
    \/ \E h \in HandlerNames : RegisterOnJobStart(h)
    \/ \E h \in HandlerNames : RegisterOnJobDone(h)
    \/ \E h \in HandlerNames : RegisterOnJobsDone(h)
    \/ Execute
    \/ DagExecute
    \/ MainStep
    \/ \E j \in DOMAIN g : JobStep(j)

SpecHooks == Init /\ [][NextHooks]_vars

(* ------------------ several runs on the same executor ----------------- *)
\* the goroutines of the run that has returned have all ended
GoroutinesEnded == \A j \in DOMAIN g : g[j].pc \in {"none", "end"}

\* the caller calls Execute again on the executor, once the earlier call has
\* returned; the jobs keep their fields
ExecuteAgain ==
    /\ pc = "returned" /\ mode # "none" /\ runs < MaxRuns
    /\ ExecuteEntry(opts, registered, runs)
    /\ UNCHANGED <<jobs, prev>>

\* the caller calls DagExecute again on the executor
DagExecuteAgain ==
    /\ pc = "returned" /\ mode # "none" /\ runs < MaxRuns
    /\ DagExecuteEntry(jobs, opts, registered, runs)
    /\ UNCHANGED <<jobs, prev>>

NextRerun == Next \/ ExecuteAgain \/ DagExecuteAgain \/ late_Release

SpecRerun == Init /\ [][NextRerun]_vars

(* ----------- SetMaxConcurrentJobs while a run is in progress ---------- *)
\* execute or dagExecute has been entered and has not yet fired onJobsDone
InProgress == mode # "none" /\ pc \notin {"config", "collect", "returned"}

\* the goroutines that have been launched and have yet to read the variable
\* limiterChan for their receive
BeforeRelease ==
    {j \in DOMAIN g :
        g[j].pc \in {"run", "depErr", "commit", "done", "wgDone", "release"}}

\* SetMaxConcurrentJobs(n) called from a callback, from a unit of work or
\* from another goroutine while the run is in progress.  The variable
\* limiterChan is written without synchronisation: a goroutine launched
\* before the call may read the replaced channel or the new one, and a send
\* of the invoking goroutine that has evaluated its operand stays on the
\* replaced channel.
SetMaxConcurrentJobsInRun(n) ==
    /\ InProgress
    /\ reconfigs < MaxReconfigs
    /\ ReplaceLimiter(n)
    /\ oldChan' = [cap |-> limiterCap, len |-> limiterLen]
    /\ stale' = BeforeRelease
    /\ staleMain' \in (IF pc = "acquire" THEN BOOLEAN ELSE {FALSE})
    /\ reconfigs' = reconfigs + 1
    /\ UNCHANGED <<opts, log, saw, runs, registered, isState, peer, commit, late, kahn, capArg, regs,
                   jobs, sched, hooks, run>>

\* limiterChan <- struct{}{} on the replaced channel
AcquireOld ==
    /\ pc = "acquire"
    /\ staleMain
    /\ oldChan.len < oldChan.cap
    /\ oldChan' = [oldChan EXCEPT !.len = @ + 1]
    /\ staleMain' = FALSE
    /\ pc' = "setRunning"
    /\ UNCHANGED <<opts, log, saw, runs, registered, isState, peer, commit, late, kahn, capArg, regs,
                   stale, reconfigs, jobs, limiter, sched, hooks, mode, wg, g,
                   errs, res, invoked, dagCalled, acyclic, prev>>

\* done(): <-limiterChan where the goroutine read the replaced channel
done_ReleaseOld(j) ==
    /\ g[j].pc = "release"
    /\ j \in stale
    /\ oldChan.len > 0
    /\ oldChan' = [oldChan EXCEPT !.len = @ - 1]
    /\ g' = [g EXCEPT ![j].pc = AfterRelease]
    /\ UNCHANGED <<opts, log, saw, runs, registered, isState, peer, commit, late, kahn, capArg, regs,
                   stale, staleMain, reconfigs, jobs, limiter, sched, hooks,
                   mode, pc, wg, errs, res, invoked, dagCalled, acyclic, prev>>

\* the steps of a run whose limiter may have been replaced
ReconfigRunStep ==
    \/ MainStep
    \/ AcquireOld
    \/ \E j \in DOMAIN g : JobStep(j) \/ done_ReleaseOld(j)

AddReconfigJob(p) == RegisterJob(p, MaxReconfigJobs)

AddReconfigDependency(from, to) == RegisterDependency(from, to, MaxReconfigDeps)

NextReconfig ==
    \/ \E p \in Payloads : AddReconfigJob(p)
    \/ \E from \in Ids, to \in Ids : AddReconfigDependency(from, to)
    \/ \E n \in 0..MaxCap : SetMaxConcurrentJobs(n)
    \/ Execute
    \/ DagExecute
    \/ \E n \in (0 - MaxNegCap)..MaxCap : SetMaxConcurrentJobsInRun(n)
    \/ ReconfigRunStep

SpecReconfig == Init /\ [][NextReconfig]_vars

(* ------------- the arguments given to SetMaxConcurrentJobs ------------ *)
\* the caller calls SetMaxConcurrentJobs(n) before it calls Execute or
\* DagExecute; the argument is noted
SetMaxConcurrentJobsArg(n) ==
    /\ pc = "config"
    /\ ReplaceLimiter(n)
    /\ capArg' = n
    /\ UNCHANGED <<opts, log, saw, runs, registered, isState, peer, commit, late, kahn, replaced, regs,
                   jobs, sched, hooks, run>>

\* registrations, any sequence of SetMaxConcurrentJobs calls with arguments
\* of -MaxNegCap..MaxCap, then a run
NextCap ==
    \/ \E p \in Payloads : AddReconfigJob(p)
    \/ \E from \in Ids, to \in Ids : AddReconfigDependency(from, to)
    \/ \E n \in (0 - MaxNegCap)..MaxCap : SetMaxConcurrentJobsArg(n)
    \/ Execute
    \/ DagExecute
    \/ MainStep
    \/ \E j \in DOMAIN g : JobStep(j)

SpecCap == Init /\ [][NextCap]_vars /\ Fairness

(* ----------------------- the registration calls ----------------------- *)
\* The values a caller hands to registration.  type is the dynamic type the
\* switch of AddJob sees under the NamedJob wrappers: "func" for a
\* func() (string, error), "cmd" for an *exec.Cmd, "other" for anything else
\* (a func() in TestJobExecutor_AddJob); names are the names of the NamedJob
\* wrappers around it, the outermost first.
FnValue(w) == [type |-> "func", work |-> w, names |-> <<>>, args |-> <<>>]
CmdValue == [type |-> "cmd", work |-> "cmd", names |-> <<>>, args |-> <<>>]
OtherValue == [type |-> "other", work |-> "", names |-> <<>>, args |-> <<>>]

\* exec.Command(name, arg...)
Command(args) == [CmdValue EXCEPT !.args = args]

\* append(e.jobs, &job{id: e.Len(), Cmd: typedJob}) / &job{..., Fn: typedJob}
AppendValue(js, j) ==
    [AppendJob(js, j.work) EXCEPT ![Cardinality(DOMAIN js)].Args = j.args]

\* NamedJob{name, v}
Named(name, v) == [v EXCEPT !.names = <<name>> \o @]

BareValues == {FnValue(w) : w \in Payloads} \cup {CmdValue, OtherValue}
JobValues == BareValues \cup {Named("test", v) : v \in BareValues}

\* the switch of AddJob has a case for the value under the wrappers
Supported(v) == v.type \in {"func", "cmd"}

\* an AddJob that appends before it looks at the type
RECURSIVE AddJobAppendFirst(_, _)
AddJobAppendFirst(js, j) ==
    IF j.names # <<>>
        THEN LET r == AddJobAppendFirst(js, [j EXCEPT !.names = Tail(@)])
                 at == Cardinality(DOMAIN r.jobs) - 1
             IN IF r.panic THEN r
                ELSE [r EXCEPT !.jobs[at].displayName = Head(j.names)]
        ELSE [jobs |-> AppendValue(js, j), panic |-> ~Supported(j)]

\* JobExecutor.AddJob(j): the job list after the call and whether the call
\* panicked.  case NamedJob: res = e.AddJob(typedJob.Job), then the name is
\* set on the job that call returned, the last of the list
RECURSIVE AddJobResult(_, _)
AddJobResult(js, j) ==
    IF j.names # <<>>
        THEN LET r == AddJobResult(js, [j EXCEPT !.names = Tail(@)])
                 at == Cardinality(DOMAIN r.jobs) - 1
             IN IF r.panic THEN r
                ELSE [r EXCEPT !.jobs[at].displayName = Head(j.names)]
        ELSE IF j.type = "cmd" \/ j.type = "func"
                THEN [jobs |-> AppendValue(js, j), panic |-> FALSE]
                ELSE [jobs |-> js, panic |-> TRUE]

\* JobExecutor.AddJobs(jobs...): for i, j := range jobs { res[i] = e.AddJob(j) }
RECURSIVE AddJobsResult(_, _)
AddJobsResult(js, vs) ==
    IF vs = <<>> THEN [jobs |-> js, panic |-> FALSE]
    ELSE LET r == AddJobResult(js, Head(vs))
         IN IF r.panic THEN r ELSE AddJobsResult(r.jobs, Tail(vs))

\* JobExecutor.AddJobCmds / AddJobFns: one append per argument
RECURSIVE AppendAll(_, _)
AppendAll(js, ws) ==
    IF ws = <<>> THEN js ELSE AppendAll(AppendJob(js, Head(ws)), Tail(ws))

\* JobExecutor.AddNamedJobFn / AddNamedJobCmd:
\* append(e.jobs, &job{id: e.Len(), displayName: name, ...})
AppendNamed(js, name, w) ==
    LET at == Cardinality(DOMAIN js)
    IN [AppendJob(js, w) EXCEPT ![at].displayName = name]

\* the values of vs registration takes as jobs: all of them up to the first
\* the switch of AddJob has no case for
RECURSIVE Taken(_)
Taken(vs) ==
    IF vs = <<>> \/ ~Supported(Head(vs)) THEN 0 ELSE 1 + Taken(Tail(vs))

\* the sequences of 1..MaxBatch elements of S
Batches(S) == UNION {[1..n -> S] : n \in 1..MaxBatch}

\* a registration call op on the values vs that leaves the job list js, of
\* at most MaxRegJobs jobs, and panics or not; the caller recovers from a
\* panic (TestJobExecutor_AddJob) and goes on
RegistrationCall(op, vs, js, panic) ==
    /\ pc = "config"
    /\ Cardinality(DOMAIN js) <= MaxRegJobs
    /\ jobs' = js
    /\ lastCall' = [op |-> op, values |-> vs, before |-> jobs,
                    panicked |-> panic]
    /\ added' = added + Taken(vs)
    /\ acyclic' = "unknown"
    /\ UNCHANGED <<opts, log, saw, runs, registered, isState, peer, commit, late, kahn, capArg, replaced,
                   limiter, sched, hooks, mode, pc, wg, g, errs, res, invoked,
                   dagCalled, prev>>

\* e.AddJob(j)
AddJobCall(j) ==
    LET r == AddJobResult(jobs, j)
    IN RegistrationCall("AddJob", <<j>>, r.jobs, r.panic)

\* e.AddJobs(vs...)
AddJobsCall(vs) ==
    LET r == AddJobsResult(jobs, vs)
    IN RegistrationCall("AddJobs", vs, r.jobs, r.panic)

\* e.AddJobCmds(cmds...)
AddJobCmdsCall(n) ==
    RegistrationCall("AddJobCmds", [k \in 1..n |-> CmdValue],
                     AppendAll(jobs, [k \in 1..n |-> CmdValue.work]), FALSE)

\* e.AddJobFns(fns...)
AddJobFnsCall(ws) ==
    RegistrationCall("AddJobFns", [k \in 1..Len(ws) |-> FnValue(ws[k])],
                     AppendAll(jobs, ws), FALSE)

\* e.AddNamedJobFn(name, fn)
AddNamedJobFnCall(name, w) ==
    RegistrationCall("AddNamedJobFn", <<Named(name, FnValue(w))>>,
                     AppendNamed(jobs, name, w), FALSE)

\* e.AddNamedJobCmd(name, cmd)
AddNamedJobCmdCall(name) ==
    RegistrationCall("AddNamedJobCmd", <<Named(name, CmdValue)>>,
                     AppendNamed(jobs, name, CmdValue.work), FALSE)

\* jobs[k].SetDisplayName(name), before the executor is run
SetDisplayNameCall(k, name) ==
    RegistrationCall("SetDisplayName", <<>>,
                     [jobs EXCEPT ![k].displayName = name], FALSE)

\* every job wraps a function: the commands are registered, not run
OnlyFnJobs == \A j \in Ids : jobs[j].payload \in Payloads

NextRegister ==
    \/ \E j \in JobValues : AddJobCall(j)
    \/ \E vs \in Batches(JobValues) : AddJobsCall(vs)
    \/ \E n \in 1..MaxBatch : AddJobCmdsCall(n)
    \/ \E ws \in Batches(Payloads) : AddJobFnsCall(ws)
    \/ \E w \in Payloads : AddNamedJobFnCall("test", w)
    \/ AddNamedJobCmdCall("test")
    \/ \E k \in Ids : SetDisplayNameCall(k, "other")
    \/ OnlyFnJobs /\ Execute
    \/ OnlyFnJobs /\ DagExecute
    \/ MainStep
    \/ \E j \in DOMAIN g : JobStep(j)

SpecRegister == Init /\ [][NextRegister]_vars

(* ------------------- the nine-job reference topology ------------------ *)
\* TestJobExecutor_DagExecute: the values given to the nine AddJob calls,
\* NamedJob{"fn 0", TestRunnableSuccessFn} to
\* NamedJob{"cmd 8", exec.Command("bash", "-c", "exit 1")}
RefSleep == Command(<<"bash", "-c", "sleep 1">>)
RefExit == Command(<<"bash", "-c", "exit 1">>)
RefValues ==
    <<Named("fn 0", FnValue("ok")), Named("fn 1", FnValue("ok")),
      Named("fn 2", FnValue("ok")), Named("fn 3", FnValue("fail")),
      Named("cmd 4", RefSleep), Named("cmd 5", RefSleep),
      Named("cmd 6", RefSleep), Named("cmd 7", RefSleep),
      Named("cmd 8", RefExit)>>

\* TestJobExecutor_DagExecute: the AddJobDependency(from, to) calls, in order
RefDependencies ==
    << <<0, 1>>, <<0, 5>>, <<2, 3>>, <<4, 7>>, <<6, 2>>, <<7, 8>>, <<7, 0>> >>

\* e.AddJobDependency(from, to) for every pair of ds, in order
RECURSIVE AddDependenciesSeq(_, _)
AddDependenciesSeq(js, ds) ==
    IF ds = <<>> THEN js
    ELSE AddDependenciesSeq(
             [js EXCEPT ![Head(ds)[1]].DependsOn = Append(@, Head(ds)[2])],
             Tail(ds))

\* the job list of TestJobExecutor_DagExecute before DagExecute is called
RefJobs ==
    AddDependenciesSeq(AddJobsResult(NoJobs, RefValues).jobs, RefDependencies)

\* WithFifoOutput(): e.OnJobDone(fn), the first handler of the executor
WithFifoOutput(o) == OnJobDone(o, UserHandler("first"))

\* the registrations of TestJobExecutor_DagExecute on a new executor: nine
\* AddJob, seven AddJobDependency, WithFifoOutput()
ReferenceSetup ==
    /\ pc = "config"
    /\ jobs = NoJobs
    /\ jobs' = RefJobs
    /\ opts' = WithFifoOutput(opts)
    /\ registered' =
          [registered EXCEPT !.onJobDone = Append(@, UserHandler("first"))]
    /\ acyclic' = "unknown"
    /\ UNCHANGED <<log, saw, runs, aux, limiter, sched, hooks, mode, pc, wg, g,
                   errs, res, invoked, dagCalled, prev>>

\* the caller sets a cap of 1..MaxRefCap
SetReferenceCap == \E n \in 1..MaxRefCap : SetMaxConcurrentJobs(n)

\* e.DagExecute() on the reference topology
ReferenceDagExecute == jobs = RefJobs /\ DagExecute

\* the steps of a DAG run
DagStep ==
    \/ dagExecute_JobsStart
    \/ dagExecute_JobStart
    \/ Acquire
    \/ SetRunning
    \/ Wait
    \/ JobsDone
    \/ Return
    \/ \E j \in DOMAIN g : JobStep(j)

NextRef ==
    \/ ReferenceSetup
    \/ SetReferenceCap
    \/ ReferenceDagExecute
    \/ DagStep

SpecRef == Init /\ [][NextRef]_vars

(* ------------------------ WithInterleavedOutput ----------------------- *)
\* e.WithInterleavedOutput(): e.OnJobsStart(fn), where fn sets the writers
\* of every command and wraps the function of every other job
WithInterleavedOutput ==
    /\ pc = "config" /\ HandlerCount < MaxHandlers
    /\ opts' = OnJobsStart(opts, InterleavedHandler)
    /\ registered' =
          [registered EXCEPT !.onJobsStart = Append(@, InterleavedHandler)]
    /\ UNCHANGED <<jobs, limiter, sched, hooks, run, log, saw, runs, aux>>

\* e.AddJob(c) for a command c whose arguments are followed
AddOutputCmd(c) ==
    /\ pc = "config"
    /\ JobsLen < MaxHookJobs
    /\ jobs' = AppendValue(jobs, c)
    /\ acyclic' = "unknown"
    /\ UNCHANGED <<obs, limiter, sched, hooks, mode, pc, wg, g, errs, res, invoked,
                   dagCalled, prev>>

\* res, err := j.Fn() where j.Fn is a closure of WithInterleavedOutput around
\* a closure that has set its fn to nil: the call of the nil function
\* panics, run unwinds and its deferred done() runs
run_WorkPanics(j) ==
    /\ g[j].pc = "run"
    /\ g[j].k > Len(jobs[j].DependsOn)
    /\ jobs[j].Fn = "spent"
    /\ g' = [g EXCEPT ![j].pc = AfterWork, ![j].panicking = TRUE]
    /\ UNCHANGED <<obs, jobs, limiter, sched, hooks, mode, pc, wg, errs, res,
                   invoked, dagCalled, acyclic, prev>>

\* the deferred calls of the panicking goroutine have returned: no recover,
\* the runtime ends the process and every goroutine with it
run_PanicExit(j) ==
    /\ g[j].pc = "end"
    /\ g[j].panicking
    /\ pc' = "panicked"
    /\ g' = [k \in DOMAIN g |-> [g[k] EXCEPT !.pc = "panicked"]]
    /\ UNCHANGED <<obs, jobs, limiter, sched, hooks, mode, wg, errs, res, invoked,
                   dagCalled, acyclic, prev>>

\* registrations, WithInterleavedOutput, then up to MaxRuns runs on the
\* executor
NextOutput ==
    \/ \E p \in Payloads : AddHookJob(p)
    \/ \E c \in {RefSleep, RefExit} : AddOutputCmd(c)
    \/ \E from \in Ids, to \in Ids : AddHookDependency(from, to)
    \/ WithInterleavedOutput
    \/ Execute
    \/ DagExecute
    \/ ExecuteAgain
    \/ DagExecuteAgain
    \/ MainStep
    \/ \E j \in DOMAIN g : JobStep(j) \/ run_WorkPanics(j) \/ run_PanicExit(j)
    \/ pc # "panicked" /\ late_Release

SpecOutput == Init /\ [][NextOutput]_vars

(* --------------- dagExecute called without the guard ------------------ *)
\* a caller of the package calls dagExecute(e.jobs, e.opts) itself: no
\* IsAcyclic check, no handler added to e.opts
dagExecuteCall ==
    /\ pc = "config"
    /\ FreshRun(runs)
    /\ mode' = "dag"
    /\ pc' = "jobsStart"
    /\ res' = NoJobs
    /\ UNCHANGED <<opts, registered, jobs, prev, limiter, sched, wg, dagCalled,
                   acyclic, aux>>

NextDirect ==
    \/ Register
    \/ dagExecuteCall
    \/ DagStep

SpecDirect == Init /\ [][NextDirect]_vars /\ Fairness

(* ----------- two executors that run at the same time ------------------ *)
\* what the run of the second executor leaves alone: the first executor
\* and cap(limiterChan)
first == <<jobs, limiterCap, mode, pc, sched, hooks, wg, g, errs, res, invoked,
           dagCalled, acyclic, prev, opts, log, saw, runs, registered, isState,
           capArg, replaced, regs, late, kahn>>
own == <<first, commit>>

\* job lists of the second executor: 1..MaxPeerJobs function jobs that
\* return no error, then up to MaxPeerDeps AddJobDependency calls (a job
\* of this executor fails on a dependency that has not succeeded yet)
PeerPayloads == UNION {[1..n -> {"ok"}] : n \in 1..MaxPeerJobs}

PeerDeclarations(n) ==
    UNION {[1..m -> (0..(n - 1)) \X (0..(n - 1))] : m \in 0..MaxPeerDeps}

\* the DependsOn list the calls ds leave on job k
PeerDependsOn(ds, k) ==
    LET calls == SelectSeq([i \in 1..Len(ds) |-> i], LAMBDA i : ds[i][1] = k)
    IN [i \in 1..Len(calls) |-> ds[calls[i]][2]]

\* e.AddJobFns(...) then e.AddJobDependency(from, to) for each pair of ds
PeerJobList(ps, ds) ==
    [k \in 0..(Len(ps) - 1) |->
        [NewJob(k, ps[k + 1]) EXCEPT !.DependsOn = PeerDependsOn(ds, k)]]

PeerJobLists ==
    UNION {{PeerJobList(ps, ds) : ds \in PeerDeclarations(Len(ps))} :
              ps \in PeerPayloads}

PeerLen == Cardinality(DOMAIN peer.jobs)

\* a second goroutine of the process calls Execute or DagExecute (m) on its
\* own executor, whose job list is js, while the first executor is in a
\* scheduling call; DagExecute returns at once on a cyclic list
PeerEntry(m, js) ==
    /\ mode # "none"
    /\ peer.mode = "none"
    /\ peer' = [NoPeer EXCEPT
                  !.mode = m,
                  !.jobs = js,
                  !.g = [j \in DOMAIN js |-> [pc |-> "none", k |-> 0]],
                  !.pc = IF m = "dag" /\ ~IsAcyclic(js) THEN "returned"
                         ELSE "jobsStart"]
    /\ UNCHANGED <<own, limiterLen>>

PeerExecute == \E js \in PeerJobLists : PeerEntry("flat", js)

PeerDagExecute == \E js \in PeerJobLists : PeerEntry("dag", js)

\* head of the loops of dagExecute in the second run
PeerDagLoop(p, queue, done) ==
    IF done < Cardinality(DOMAIN p.jobs)
        THEN IF queue # <<>>
                THEN [p EXCEPT !.cur = Head(queue), !.jobQueue = Tail(queue),
                               !.pc = "acquire"]
                ELSE [p EXCEPT !.jobQueue = queue, !.pc = "recv"]
        ELSE [p EXCEPT !.jobQueue = queue, !.pc = "wait"]

\* execute: wg.Add(len(jobs)), first iteration of the range loop (the
\* second executor has no onJobsStart handler)
peer_execute_JobsStart ==
    /\ peer.pc = "jobsStart" /\ peer.mode = "flat"
    /\ peer' = [peer EXCEPT !.wg = PeerLen, !.cur = 0,
                            !.pc = IF PeerLen = 0 THEN "wait" ELSE "acquire"]
    /\ UNCHANGED <<own, limiterLen>>

\* dagExecute: the edge lists, the starter queue, wg.Add, head of the loops
peer_dagExecute_JobsStart ==
    /\ peer.pc = "jobsStart" /\ peer.mode = "dag"
    /\ peer' = PeerDagLoop(
                  [peer EXCEPT !.adjacencyList = DagAdjacencyList(peer.jobs),
                               !.dependentCount = DagDependentCount(peer.jobs),
                               !.wg = PeerLen,
                               !.doneJob = 0],
                  StartQueue(PeerLen, DagDependentCount(peer.jobs)), 0)
    /\ UNCHANGED <<own, limiterLen>>

\* a second run that has a slot pool of its own: the slots its jobs hold
PeerHeld ==
    Cardinality({j \in DOMAIN peer.g :
                    peer.g[j].pc \in {"run", "depErr", "commit", "done",
                                      "wgDone", "release"}})

PeerSlotFreeOwnPool == PeerHeld < limiterCap

\* limiterChan is a variable of the package: the second run sends on the
\* channel the first run sends on
PeerSlotFree == SlotFree

\* limiterChan <- struct{}{}
peer_Acquire ==
    /\ peer.pc = "acquire"
    /\ PeerSlotFree
    /\ limiterLen' = limiterLen + 1
    /\ peer' = [peer EXCEPT !.pc = "setRunning"]
    /\ UNCHANGED own

\* job.mutex.Lock(); job.status = JobStateRunning; job.mutex.Unlock()
peer_SetRunning ==
    /\ peer.pc = "setRunning"
    /\ peer' = [peer EXCEPT !.jobs[peer.cur].status = JobStateRunning,
                            !.pc = "jobStart"]
    /\ UNCHANGED <<own, limiterLen>>

\* execute: go job.run(...) (no onJobStart handler), then the next
\* iteration of the range loop
peer_execute_JobStart ==
    /\ peer.pc = "jobStart" /\ peer.mode = "flat"
    /\ peer' = [peer EXCEPT
                  !.g[peer.cur] = [pc |-> "run", k |-> 1],
                  !.cur = IF RangeAfter(peer.cur) < PeerLen
                             THEN RangeAfter(peer.cur) ELSE @,
                  !.pc = IF RangeAfter(peer.cur) < PeerLen
                            THEN "acquire" ELSE "wait"]
    /\ UNCHANGED <<own, limiterLen>>

\* dagExecute: go job.run(...) (no onJobStart handler), then the head of
\* the loops
peer_dagExecute_JobStart ==
    /\ peer.pc = "jobStart" /\ peer.mode = "dag"
    /\ peer' = PeerDagLoop(
                  [peer EXCEPT !.g[peer.cur] = [pc |-> "run", k |-> 1]],
                  peer.jobQueue, peer.doneJob)
    /\ UNCHANGED <<own, limiterLen>>

\* doneChan <- job.id meets for doneId := range doneChan
peer_dagExecute_Receive(j) ==
    /\ peer.pc = "recv" /\ peer.mode = "dag"
    /\ peer.g[j].pc = "post"
    /\ LET st == DependentsRelax(peer.adjacencyList[j],
                                 [count |-> peer.dependentCount,
                                  queue |-> peer.jobQueue])
       IN peer' = PeerDagLoop(
                     [peer EXCEPT !.dependentCount = st.count,
                                  !.doneJob = @ + 1,
                                  !.g[j].pc = "end"],
                     st.queue, peer.doneJob + 1)
    /\ UNCHANGED <<own, limiterLen>>

\* wg.Wait(), then the scheduling call returns (no onJobsDone handler)
peer_Wait ==
    /\ peer.pc = "wait"
    /\ peer.wg = 0
    /\ peer' = [peer EXCEPT !.pc = "returned"]
    /\ UNCHANGED <<own, limiterLen>>

\* one turn of: for _, job := range dependsOn { if !job.IsState(JobStateSucceed) }
peer_run_CheckDependency(j) ==
    /\ peer.g[j].pc = "run"
    /\ peer.g[j].k <= Len(peer.jobs[j].DependsOn)
    /\ peer' = [peer EXCEPT !.g[j] =
                  IF StatusIs(peer.jobs[peer.jobs[j].DependsOn[peer.g[j].k]].status,
                              JobStateSucceed)
                      THEN [pc |-> "run", k |-> peer.g[j].k + 1]
                      ELSE [pc |-> "depErr", k |-> peer.g[j].k]]
    /\ UNCHANGED <<own, limiterLen>>

\* if hasDepErr { j.Err = ErrRequiredJobFailed; j.status = Done|Failed; return }
peer_run_DependencyFailed(j) ==
    /\ peer.g[j].pc = "depErr"
    /\ peer' = [peer EXCEPT
                  !.jobs[j].Err = ErrRequiredJobFailed,
                  !.jobs[j].status = BitOr(JobStateDone, JobStateFailed),
                  !.g[j].pc = AfterDependencyFailure]
    /\ UNCHANGED <<own, limiterLen>>

\* res, err := j.Fn(), without the lock of the job
peer_run_Work(j) ==
    /\ peer.g[j].pc = "run"
    /\ peer.g[j].k > Len(peer.jobs[j].DependsOn)
    /\ peer' = [peer EXCEPT !.g[j].pc = "commit"]
    /\ UNCHANGED <<own, limiterLen>>

\* j.mutex.Lock(); j.Res = res; j.Err = err; the terminal status;
\* j.mutex.Unlock(); return
peer_run_Commit(j) ==
    /\ peer.g[j].pc = "commit"
    /\ peer' = [peer EXCEPT
                  !.jobs[j].Res = WorkRes(peer.jobs[j].payload),
                  !.jobs[j].Err = WorkErr(peer.jobs[j].payload),
                  !.jobs[j].status = TerminalStatus(WorkErr(peer.jobs[j].payload)),
                  !.g[j].pc = AfterWork]
    /\ UNCHANGED <<own, limiterLen>>

\* done(): opts.onJobDone(jobs, jobIndex), the handler Execute or
\* DagExecute registered (the errs slice it fills is not followed)
peer_done_OnJobDone(j) ==
    /\ peer.g[j].pc = "done"
    /\ peer' = [peer EXCEPT !.g[j].pc = AfterOnJobDone]
    /\ UNCHANGED <<own, limiterLen>>

\* done(): defer wg.Done()
peer_done_WgDone(j) ==
    /\ peer.g[j].pc = "wgDone"
    /\ peer' = [peer EXCEPT !.wg = @ - 1, !.g[j].pc = "release"]
    /\ UNCHANGED <<own, limiterLen>>

\* done(): <-limiterChan
peer_done_Release(j) ==
    /\ peer.g[j].pc = "release"
    /\ limiterLen > 0
    /\ limiterLen' = limiterLen - 1
    /\ peer' = [peer EXCEPT !.g[j].pc = IF peer.mode = "dag" THEN "post" ELSE "end"]
    /\ UNCHANGED own

PeerMainStep ==
    \/ peer_execute_JobsStart
    \/ peer_dagExecute_JobsStart
    \/ peer_Acquire
    \/ peer_SetRunning
    \/ peer_execute_JobStart
    \/ peer_dagExecute_JobStart
    \/ peer_Wait

PeerJobStep(j) ==
    \/ peer_run_CheckDependency(j)
    \/ peer_run_DependencyFailed(j)
    \/ peer_run_Work(j)
    \/ peer_run_Commit(j)
    \/ peer_done_OnJobDone(j)
    \/ peer_done_WgDone(j)
    \/ peer_done_Release(j)
    \/ peer_dagExecute_Receive(j)

PeerGoStep(j) == j \in DOMAIN peer.g /\ PeerJobStep(j)

AddSharedJob(p) == RegisterJob(p, MaxSharedJobs)

AddSharedDependency(from, to) == RegisterDependency(from, to, MaxSharedDeps)

\* two executors of one process: the first is configured and run as
\* before, the second is run by another goroutine of the process
NextShared ==
    \/ \E p \in Payloads : AddSharedJob(p)
    \/ \E from \in Ids, to \in Ids : AddSharedDependency(from, to)
    \/ \E n \in 0..MaxCap : SetMaxConcurrentJobs(n)
    \/ Execute
    \/ DagExecute
    \/ MainStep
    \/ \E j \in DOMAIN g : JobStep(j)
    \/ PeerExecute
    \/ PeerDagExecute
    \/ PeerMainStep
    \/ \E j \in DOMAIN peer.g : PeerJobStep(j)

\* the Go scheduler lets every goroutine of both runs that can take a step
\* take one
FairnessShared ==
    /\ Fairness
    /\ WF_vars(PeerMainStep)
    /\ \A j \in 0..(MaxPeerJobs - 1) : WF_vars(PeerGoStep(j))

SpecShared == Init /\ [][NextShared]_vars /\ FairnessShared

(* ------------------- job.run, one write at a time --------------------- *)
\* what a job holds: a command, a function, or neither (AddJobCmds(nil),
\* AddJobFns(nil), AddJob of a nil *exec.Cmd or of a nil function)
JobKinds == {"cmd", "fn", "empty"}

\* Res and Err of a job before the run: of a new job, or what an earlier
\* run of the executor left in them
EarlierRuns ==
    {[Res |-> "", Err |-> NoErr],
     [Res |-> WorkRes("ok"), Err |-> WorkErr("ok")],
     [Res |-> WorkRes("fail"), Err |-> WorkErr("fail")],
     [Res |-> "", Err |-> ErrRequiredJobFailed]}

\* a run that commits the status in a critical section of its own, before
\* the result and the error
RunWithWorkStatusApart ==
    <<"work", "lock", "setStatus", "unlock", "lock", "setRes", "setErr", "unlock">>

\* run of a job that holds a command or a function: the work, then
\* j.mutex.Lock(); j.Res = ...; j.Err = err; the status; j.mutex.Unlock()
RunWithWork == <<"work", "lock", "setRes", "setErr", "setStatus", "unlock">>

\* run when hasDepErr: Lock, Err, status, Unlock, return
RunDependencyFailed == <<"lock", "setDepErr", "setFailed", "unlock">>

\* run of a job with neither: no branch of if j.Cmd != nil {} else if
\* j.Fn != nil {} is taken, so no Lock; then the status and Unlock
RunEmpty == <<"setStatus", "unlock">>

\* the statements of job.run that touch the job, in order
RunSteps(c) ==
    IF c.depErr THEN RunDependencyFailed
    ELSE IF c.kind = "empty" THEN RunEmpty
    ELSE RunWithWork

\* job.run has returned
RunReturned(c) == c.kind # "none" /\ c.at > Len(RunSteps(c))

\* the scheduler has set the job Running and started go job.run(...) on a
\* job of kind k whose work ends as p says, with a dependency that has not
\* succeeded when d, and with Res and Err as the earlier run e left them
FollowJob(k, p, d, e) ==
    /\ pc = "config"
    /\ commit.kind = "none"
    /\ commit' = [NoCommit EXCEPT !.kind = k, !.payload = p, !.depErr = d,
                                  !.before = e, !.Res = e.Res, !.Err = e.Err,
                                  !.status = JobStateRunning, !.at = 1]
    /\ UNCHANGED <<first, limiterLen, peer>>

\* job.run is at the statement named s
RunAt(s) ==
    /\ commit.kind # "none"
    /\ ~commit.fatal
    /\ commit.at <= Len(RunSteps(commit))
    /\ RunSteps(commit)[commit.at] = s

\* j.Cmd.CombinedOutput() / j.Cmd.Run() / j.Fn()
commit_Work ==
    /\ RunAt("work")
    /\ commit' = [commit EXCEPT !.at = @ + 1]
    /\ UNCHANGED <<first, limiterLen, peer>>

\* j.mutex.Lock()
commit_Lock ==
    /\ RunAt("lock")
    /\ ~commit.writer
    /\ commit' = [commit EXCEPT !.writer = TRUE, !.locks = @ + 1, !.at = @ + 1]
    /\ UNCHANGED <<first, limiterLen, peer>>

\* j.Res = string(res) / j.Res = res
commit_SetRes ==
    /\ RunAt("setRes")
    /\ commit' = [commit EXCEPT !.Res = WorkRes(commit.payload), !.at = @ + 1]
    /\ UNCHANGED <<first, limiterLen, peer>>

\* j.Err = err
commit_SetErr ==
    /\ RunAt("setErr")
    /\ commit' = [commit EXCEPT !.Err = WorkErr(commit.payload), !.at = @ + 1]
    /\ UNCHANGED <<first, limiterLen, peer>>

\* j.Err = ErrRequiredJobFailed
commit_SetDepErr ==
    /\ RunAt("setDepErr")
    /\ commit' = [commit EXCEPT !.Err = ErrRequiredJobFailed, !.at = @ + 1]
    /\ UNCHANGED <<first, limiterLen, peer>>

\* j.status = JobStateDone | JobStateFailed
commit_SetFailed ==
    /\ RunAt("setFailed")
    /\ commit' = [commit EXCEPT !.status = BitOr(JobStateDone, JobStateFailed),
                                !.at = @ + 1]
    /\ UNCHANGED <<first, limiterLen, peer>>

\* if j.Err != nil { Done|Failed } else { Done|Succeed }
commit_SetStatus ==
    /\ RunAt("setStatus")
    /\ commit' = [commit EXCEPT !.status = TerminalStatus(commit.Err),
                                !.at = @ + 1]
    /\ UNCHANGED <<first, limiterLen, peer>>

\* j.mutex.Unlock(): sync.RWMutex.Unlock on a mutex that is not locked for
\* writing is a fatal error of the runtime, the process ends
commit_Unlock ==
    /\ RunAt("unlock")
    /\ commit' = IF commit.writer
                    THEN [commit EXCEPT !.writer = FALSE, !.unlocks = @ + 1,
                                        !.at = @ + 1]
                    ELSE [commit EXCEPT !.fatal = TRUE]
    /\ UNCHANGED <<first, limiterLen, peer>>

\* j.mutex.RLock() goes through when no goroutine holds the write lock
RLockFree == ~commit.writer

\* a goroutine of the caller polls Job.IsState(JobStateDone)
read_IsState ==
    /\ commit.kind # "none" /\ ~commit.fatal
    /\ commit.reader = "idle"
    /\ RLockFree
    /\ commit' = [commit EXCEPT
                    !.seen.done = StatusIs(commit.status, JobStateDone),
                    !.reader = IF StatusIs(commit.status, JobStateDone)
                                  THEN "err" ELSE "idle"]
    /\ UNCHANGED <<first, limiterLen, peer>>

\* then it calls Job.Err()
read_Err ==
    /\ commit.kind # "none" /\ ~commit.fatal
    /\ commit.reader = "err"
    /\ RLockFree
    /\ commit' = [commit EXCEPT !.seen.Err = commit.Err, !.reader = "res"]
    /\ UNCHANGED <<first, limiterLen, peer>>

\* then Job.CombinedOutput()
read_CombinedOutput ==
    /\ commit.kind # "none" /\ ~commit.fatal
    /\ commit.reader = "res"
    /\ RLockFree
    /\ commit' = [commit EXCEPT !.seen.Res = commit.Res, !.reader = "read"]
    /\ UNCHANGED <<first, limiterLen, peer>>

NextCommit ==
    \/ \E k \in JobKinds, p \in Payloads, d \in BOOLEAN, e \in EarlierRuns :
            FollowJob(k, p, d, e)
    \/ commit_Work
    \/ commit_Lock
    \/ commit_SetRes
    \/ commit_SetErr
    \/ commit_SetDepErr
    \/ commit_SetFailed
    \/ commit_SetStatus
    \/ commit_Unlock
    \/ read_IsState
    \/ read_Err
    \/ read_CombinedOutput

SpecCommit == Init /\ [][NextCommit]_vars

(* ------------------- job.IsState on any status word ------------------- *)
\* (&job{status: status}).IsState(jobState) is about to be called, for any
\* status word and any flag word of 0..MaxStatusWord
InitIsState ==
    /\ InitExecutor
    /\ isState \in [status : 0..MaxStatusWord, jobState : 0..MaxStatusWord,
                     called : {FALSE}, res : {FALSE}]

\* the call of IsState
IsStateCall ==
    /\ ~isState.called
    /\ isState' = [isState EXCEPT
                      !.called = TRUE,
                      !.res = StatusIs(isState.status, isState.jobState)]
    /\ UNCHANGED <<jobs, limiter, sched, hooks, run, opts, log, saw, runs,
                   registered, ext>>

NextIsState == IsStateCall

SpecIsState == InitIsState /\ [][NextIsState]_vars

(* ===================================================================== *)
(*                              Properties                                *)
(* ===================================================================== *)
\* the jobs job j declares a dependency on
DepsOf(js, j) == {js[j].DependsOn[k] : k \in 1..Len(js[j].DependsOn)}

RECURSIVE Closure(_, _, _)
Closure(js, S, n) ==
    IF n = 0 THEN S
    ELSE Closure(js, S \cup UNION {DepsOf(js, x) : x \in S}, n - 1)

\* the jobs job j depends on, directly or through other jobs
TransDeps(js, j) == Closure(js, DepsOf(js, j), Cardinality(DOMAIN js))

\* the dependsOn relation has a directed cycle
HasCycle(js) == \E j \in DOMAIN js : j \in TransDeps(js, j)

DoneFailed == BitOr(JobStateDone, JobStateFailed)
DoneSucceed == BitOr(JobStateDone, JobStateSucceed)

RunningJobs == {j \in Ids : jobs[j].status = JobStateRunning}
FailedJobs == {j \in Ids : IsState(j, JobStateFailed)}
AllDone == \A j \in Ids : IsState(j, JobStateDone)

\* a scheduling call has been entered / has handed control back
InRun == mode # "none"
Returned == InRun /\ pc = "returned"
DagRun == mode = "dag" /\ ~HasCycle(jobs)

\* C1: in every state of a flat or a DAG run the number of jobs whose
\* status is Running is at most the capacity of the limiter
C1_ConcurrencyBound == Cardinality(RunningJobs) <= limiterCap

\* C1 witness: a DAG run in which as many jobs are Running as the limiter
\* has slots, two of them, while the scheduler waits for a slot for a third
C1_Witness ==
    /\ mode = "dag" /\ pc = "acquire"
    /\ limiterCap = 2 /\ Cardinality(RunningJobs) = 2 /\ JobsLen = 3

\* C2: in a DAG run on an acyclic graph, a job B that depends on A has left
\* Pending or had its onJobStart fired only if A is Done and A's onJobDone
\* has been fired, has returned and the completion of A has been consumed
C2_DependencyOrdering ==
    DagRun =>
        \A b \in Ids : \A a \in DepsOf(jobs, b) :
            (jobs[b].status # JobStatePending \/ startCalled[b] > 0)
                => (IsState(a, JobStateDone) /\ doneCalled[a] > 0
                    /\ g[a].pc = "end")

\* C2 witness: a job with two different dependencies is Running in a DAG run
C2_Witness ==
    /\ DagRun
    /\ \E b \in Ids : /\ Cardinality(DepsOf(jobs, b)) = 2
                      /\ jobs[b].status = JobStateRunning

\* C3: in a DAG run, when B depends on A and A is Failed, the work of B is
\* never invoked, and B once Done (as it is when the run returns) is
\* Done|Failed with ErrRequiredJobFailed and an empty result
C3_CascadingFailure ==
    DagRun =>
        \A b \in Ids : \A a \in DepsOf(jobs, b) :
            IsState(a, JobStateFailed) =>
                /\ invoked[b] = 0
                /\ Returned => IsState(b, JobStateDone)
                /\ IsState(b, JobStateDone) =>
                      /\ jobs[b].status = DoneFailed
                      /\ jobs[b].Err = ErrRequiredJobFailed
                      /\ jobs[b].Res = ""

\* C3 witness: a returned DAG run where a job whose own work would succeed
\* depends on a job whose work failed
C3_Witness ==
    /\ DagRun /\ Returned
    /\ \E b \in Ids : \E a \in DepsOf(jobs, b) :
          /\ jobs[b].payload = "ok"
          /\ jobs[a].Err = ErrTest
          /\ jobs[b].Err = ErrRequiredJobFailed

\* the work of job a was invoked and returned an error
WorkFailed(a) == invoked[a] > 0 /\ WorkErr(jobs[a].payload) # NoErr

\* C4: in a DAG run, every job that transitively depends on a job whose
\* work failed never has its work invoked and, once Done, is Done|Failed
\* with ErrRequiredJobFailed; a returned run has consumed the completion of
\* every job, dependency-failed ones included, and every job is Done
C4_TransitiveFailure ==
    DagRun =>
        /\ \A b \in Ids : \A a \in TransDeps(jobs, b) :
              WorkFailed(a) =>
                  /\ invoked[b] = 0
                  /\ IsState(b, JobStateDone) =>
                        /\ jobs[b].status = DoneFailed
                        /\ jobs[b].Err = ErrRequiredJobFailed
        /\ Returned => (AllDone /\ doneJob = JobsLen
                        /\ \A j \in Ids : g[j].pc = "end")

\* C4 witness: a returned DAG run on a chain b -> m -> a where the work of a
\* failed: m failed on its dependency and so did b, which only depends on m
C4_Witness ==
    /\ DagRun /\ Returned
    /\ \E a \in Ids, m \in Ids, b \in Ids :
          /\ a # m /\ m # b /\ a # b
          /\ jobs[b].DependsOn = <<m>> /\ jobs[m].DependsOn = <<a>>
          /\ WorkFailed(a)
          /\ jobs[m].Err = ErrRequiredJobFailed
          /\ jobs[b].Err = ErrRequiredJobFailed

\* C5: DagExecute on a graph with a cycle returns at once a map with
\* ErrCyclicDependencyDetected for every job; dagExecute is not entered, no
\* callback fires, no work is invoked and every job stays Pending
C5_CycleRejection ==
    (mode = "dag" /\ HasCycle(jobs)) =>
        /\ pc = "returned"
        /\ DOMAIN res = Ids
        /\ \A j \in Ids : res[j] = ErrCyclicDependencyDetected
        /\ dagCalled = 0
        /\ startsCalled = 0 /\ donesCalled = 0
        /\ \A j \in Ids : /\ startCalled[j] = 0 /\ doneCalled[j] = 0
                          /\ invoked[j] = 0
                          /\ jobs[j].status = JobStatePending
                          /\ g[j].pc = "none"

\* C5 witness: DagExecute has returned on three jobs, two of them on a cycle
\* and the third with no dependency at all
C5_Witness ==
    /\ mode = "dag" /\ HasCycle(jobs) /\ pc = "returned"
    /\ JobsLen = 3
    /\ \E j \in Ids : /\ jobs[j].DependsOn = <<>>
                      /\ \A k \in Ids : j \notin DepsOf(jobs, k)

\* C8: Execute invokes the work of every job exactly once and a job ends
\* Succeeded iff its own work returned no error, dependencies or not
C8_FlatIgnoresDependencies ==
    (mode = "flat" /\ Returned) =>
        \A j \in Ids :
            /\ invoked[j] = 1
            /\ IsState(j, JobStateSucceed) <=> (WorkErr(jobs[j].payload) = NoErr)

\* C9: when Execute, or DagExecute on an acyclic graph, has returned, the
\* keys of the returned map are the Failed jobs, each entry is the error of
\* its job, and no Succeeded job has an entry
C9_ErrorMap ==
    (Returned /\ ~(mode = "dag" /\ HasCycle(jobs))) =>
        /\ DOMAIN res = FailedJobs
        /\ \A j \in DOMAIN res : res[j] = jobs[j].Err /\ res[j] # NoErr
        /\ \A j \in Ids : IsState(j, JobStateSucceed) => j \notin DOMAIN res
        /\ Cardinality(DOMAIN res) = Cardinality(FailedJobs)

\* C9 witness: a returned run with a Failed and a Succeeded job
C9_Witness ==
    /\ Returned /\ mode = "flat"
    /\ \E j \in Ids, k \in Ids :
          /\ jobs[j].status = DoneFailed /\ jobs[k].status = DoneSucceed
          /\ j \in DOMAIN res /\ k \notin DOMAIN res

\* C6: IsAcyclic returns true exactly when the dependsOn relation has no
\* directed cycle (empty job list, self-dependencies and repeated
\* declarations included), and its loop takes as many jobs off its queue as
\* there are jobs iff there is no cycle
C6_IsAcyclicCorrect ==
    acyclic # "unknown" =>
        /\ acyclic = BoolStr(~HasCycle(jobs))
        /\ (KahnIndex(jobs) = JobsLen) <=> ~HasCycle(jobs)

\* C6 witness: IsAcyclic has returned false on three jobs where job 0
\* declares job 1 twice and jobs 1 and 2 depend on each other
C6_Witness ==
    /\ acyclic = "false" /\ JobsLen = 3
    /\ jobs[0].DependsOn = <<1, 1>>
    /\ jobs[1].DependsOn = <<2>> /\ jobs[2].DependsOn = <<1>>

\* C7: under fair scheduling every Execute and every DagExecute on a JobSet
\* with acyclic dependencies eventually returns with every job Done
C7_Termination == (InRun /\ ~HasCycle(jobs)) ~> (Returned /\ AllDone)

\* C7 witness: a DAG run of three jobs behind a limiter of one slot has
\* returned with every job Done
C7_Witness ==
    /\ Returned /\ AllDone /\ mode = "dag"
    /\ JobsLen = 3 /\ limiterCap = 1 /\ dagCalled = 1

\* C10: a JobSet without dependencies run by Execute and an identical one
\* run by DagExecute end with the same status for every job and the same
\* keys in the returned map
C10_FlatDagSameOutcome ==
    (Returned /\ prev.mode # "none") =>
        /\ mode = OtherMode(prev.mode)
        /\ \A j \in Ids : jobs[j].status = prev.status[j]
        /\ DOMAIN res = prev.keys

\* C10 witness: Execute then DagExecute have returned on three jobs, one
\* Failed and one Succeeded among them, behind a limiter of one slot
C10_Witness ==
    /\ Returned /\ prev.mode = "flat" /\ mode = "dag"
    /\ JobsLen = 3 /\ limiterCap = 1
    /\ \E j \in Ids, k \in Ids :
          jobs[j].status = DoneFailed /\ jobs[k].status = DoneSucceed

\* the work of job j, or of a job it transitively depends on, was invoked
\* and returned an error
FailureCause(j) == WorkFailed(j) \/ \E a \in TransDeps(jobs, j) : WorkFailed(a)

\* C11: in a DAG run on an acyclic graph a job is Failed only if its own work
\* or the work of a job it transitively depends on returned an error; when
\* the run has returned a job is Failed iff that is so, and every other job
\* is Done|Succeeded whatever happened to the jobs it does not depend on
C11_FailureAlongEdgesOnly ==
    DagRun =>
        \A j \in Ids :
            /\ IsState(j, JobStateFailed) => FailureCause(j)
            /\ Returned =>
                  /\ IsState(j, JobStateFailed) <=> FailureCause(j)
                  /\ ~FailureCause(j) => jobs[j].status = DoneSucceed

\* C11 witness: a returned DAG run of three jobs: the work of a failed, b
\* depends on a and failed with it, c is tied to neither and Succeeded
C11_Witness ==
    /\ DagRun /\ Returned /\ JobsLen = 3
    /\ \E a \in Ids, b \in Ids, c \in Ids :
          /\ a # b /\ b # c /\ a # c
          /\ WorkFailed(a)
          /\ jobs[b].DependsOn = <<a>> /\ jobs[b].status = DoneFailed
          /\ jobs[c].DependsOn = <<>> /\ jobs[c].status = DoneSucceed
          /\ c \notin DepsOf(jobs, a)

\* C12: every DagExecute run of the reference topology, whatever the cap
\* and the interleaving, can always take a step until it has returned, and
\* has by then jobs 2,3,4,6,7,8 Failed, jobs 0,1,5 Succeeded and a map of
\* exactly 6 entries
C12_ReferenceTopology ==
    (mode = "dag" /\ jobs # NoJobs /\ DOMAIN jobs = DOMAIN RefJobs
        /\ \A j \in Ids : jobs[j].DependsOn = RefJobs[j].DependsOn) =>
        /\ ~Returned => ENABLED DagStep
        /\ Returned =>
              /\ {j \in Ids : jobs[j].status = DoneFailed} = {2, 3, 4, 6, 7, 8}
              /\ {j \in Ids : jobs[j].status = DoneSucceed} = {0, 1, 5}
              /\ DOMAIN res = {2, 3, 4, 6, 7, 8}
              /\ Cardinality(DOMAIN res) = 6

\* C12 witness: DagExecute has returned on the reference topology behind a
\* limiter of one slot, job 7 failed on its dependency and job 0 Succeeded
C12_Witness ==
    /\ Returned /\ mode = "dag" /\ JobsLen = 9 /\ limiterCap = 1
    /\ jobs[7].Err = ErrRequiredJobFailed /\ jobs[0].status = DoneSucceed
    /\ invoked[4] = 0 /\ Cardinality(DOMAIN res) = 6

\* the scheduling call was not refused for a cyclic graph
Scheduled == InRun /\ ~(mode = "dag" /\ HasCycle(jobs))

\* the handlers of hs are invoked in calls as many times as they are registered
SameCalls(calls, hs) ==
    /\ Len(calls) = Len(hs)
    /\ \A k \in 1..Len(hs) : Occurrences(calls, hs[k]) = Occurrences(hs, hs[k])

\* C13: in a run of Execute or of DagExecute that schedules the jobs, no
\* event is fired twice, and once the call has returned the before-any-job
\* and after-all-jobs events have been fired once, the before-this-job and
\* after-this-job events once for every job, a job failed on a dependency
\* included, and every firing has invoked each registered handler
C13_CallbacksExactlyOnce ==
    Scheduled =>
        /\ startsCalled <= 1 /\ donesCalled <= 1
        /\ \A j \in Ids : startCalled[j] <= 1 /\ doneCalled[j] <= 1
        /\ Returned =>
              /\ startsCalled = 1 /\ donesCalled = 1
              /\ SameCalls(log.jobsStart, registered.onJobsStart)
              /\ SameCalls(log.jobsDone, registered.onJobsDone)
              /\ \A j \in Ids :
                    /\ startCalled[j] = 1 /\ doneCalled[j] = 1
                    /\ SameCalls(log.jobStart[j], registered.onJobStart)
                    /\ SameCalls(log.jobDone[j], registered.onJobDone)

\* C13 witness: a returned run of two jobs, one of them failed on its
\* dependency, with a handler of the caller on the after-this-job event
C13_Witness ==
    /\ Scheduled /\ Returned /\ JobsLen = 2
    /\ Len(registered.onJobDone) = 2
    /\ \E j \in Ids : jobs[j].Err = ErrRequiredJobFailed /\ doneCalled[j] = 1

\* C14: in every run, flat or DAG, the first or a later one on its executor,
\* the before-this-job event of job j is fired on j in Running state, the
\* after-this-job event on j Done, Done|Succeeded when its work was invoked
\* and returned no error and Done|Failed otherwise, and the after-this-job
\* event of j is fired only after its before-this-job event has returned
C14_PerJobCallbackStates ==
    InRun =>
        \A j \in Ids :
            /\ startCalled[j] > 0 => saw.jobStart[j] = JobStateRunning
            /\ doneCalled[j] > 0 =>
                  /\ startCalled[j] > 0
                  /\ StatusIs(saw.jobDone[j], JobStateDone)
                  /\ saw.jobDone[j] =
                        (IF invoked[j] > 0 /\ WorkErr(jobs[j].payload) = NoErr
                            THEN DoneSucceed ELSE DoneFailed)
            /\ doneCalled[j] = 0 => saw.jobDone[j] = NotSeen
            /\ startCalled[j] = 0 =>
                  (saw.jobStart[j] = NotSeen /\ g[j].pc = "none")

\* C14 witness: in the second run on an executor, a DAG run, the events of
\* two jobs have been fired, one on Done|Succeeded and one on Done|Failed
C14_Witness ==
    /\ runs = 2 /\ mode = "dag"
    /\ \E j \in Ids, k \in Ids :
          /\ saw.jobStart[j] = JobStateRunning /\ saw.jobDone[j] = DoneSucceed
          /\ saw.jobStart[k] = JobStateRunning /\ saw.jobDone[k] = DoneFailed

\* C15: in every scheduling run on a JobSet the before-any-job event is
\* fired before any job is launched, and is fired on jobs that are all in
\* Pending state
C15_JobsStartAllPending ==
    Scheduled =>
        /\ (\E j \in Ids : startCalled[j] > 0 \/ g[j].pc # "none")
              => startsCalled = 1
        /\ startsCalled > 0 =>
              /\ DOMAIN saw.jobsStart = Ids
              /\ \A j \in Ids : saw.jobsStart[j] = JobStatePending

\* C16: in a run that schedules the jobs, the after-all-jobs event is fired
\* only when every job is Done and the after-this-job event of every job
\* has been fired in this run and has returned, and the call returns to the
\* caller only after the after-all-jobs event
C16_JobsDoneAfterAll ==
    Scheduled =>
        /\ donesCalled > 0 =>
              /\ DOMAIN saw.jobsDone = Ids
              /\ \A j \in Ids :
                    /\ StatusIs(saw.jobsDone[j], JobStateDone)
                    /\ IsState(j, JobStateDone)
                    /\ doneCalled[j] = 1
                    /\ StatusIs(saw.jobDone[j], JobStateDone)
                    /\ g[j].pc \in {"release", "post", "end"}
        /\ pc \in {"collect", "returned"} => donesCalled = 1

\* C16 witness: Execute has returned on three jobs while the goroutine of
\* one of them has yet to give its slot back
C16_Witness ==
    /\ Returned /\ mode = "flat" /\ JobsLen = 3 /\ donesCalled = 1
    /\ \E j \in Ids : g[j].pc = "release"

\* the firings so far of an event fired n times have invoked the handlers
\* hs, all of them, one after the other in this order, once per firing
InvokedInOrder(calls, n, hs) == calls = (IF n = 0 THEN <<>> ELSE hs)

\* C17: the handler of each event calls the handlers registered on it, all
\* of them, in registration order; each firing of an event has invoked them
\* once each in that order; and in a run the handler that collects the
\* errors, registered by Execute or DagExecute, comes after the handlers of
\* the caller
C17_HandlersInRegistrationOrder ==
    /\ Calls(opts.onJobsStart) = registered.onJobsStart
    /\ Calls(opts.onJobStart) = registered.onJobStart
    /\ Calls(opts.onJobDone) = registered.onJobDone
    /\ Calls(opts.onJobsDone) = registered.onJobsDone
    /\ startsCalled <= 1 /\ donesCalled <= 1
    /\ InvokedInOrder(log.jobsStart, startsCalled, registered.onJobsStart)
    /\ InvokedInOrder(log.jobsDone, donesCalled, registered.onJobsDone)
    /\ \A j \in DOMAIN log.jobStart :
          /\ startCalled[j] <= 1 /\ doneCalled[j] <= 1
          /\ InvokedInOrder(log.jobStart[j], startCalled[j],
                            registered.onJobStart)
          /\ InvokedInOrder(log.jobDone[j], doneCalled[j],
                            registered.onJobDone)
    /\ InRun =>
          LET hs == Calls(opts.onJobDone)
          IN /\ hs # <<>>
             /\ hs[Len(hs)] = ErrsHandler(runs)
             /\ \A k \in 1..(Len(hs) - 1) : hs[k].name \in HandlerNames

\* C17 witness: a run has returned in which the after-this-job event of a
\* job invoked the handlers "second" and "first" of the caller, registered in
\* this order, and then the handler that collects the errors
C17_Witness ==
    /\ Returned
    /\ \E j \in Ids :
          log.jobDone[j] =
              <<UserHandler("second"), UserHandler("first"), ErrsHandler(1)>>

\* a status that stays, or moves from Pending to Running, or from Running to
\* Done|Succeeded or Done|Failed
Forward(s, s2) ==
    \/ s2 = s
    \/ s = JobStatePending /\ s2 = JobStateRunning
    \/ s = JobStateRunning /\ s2 \in {DoneSucceed, DoneFailed}

\* C18: over any sequence of registrations and scheduling runs on an
\* executor, every step leaves the status of every job where it is or moves
\* it forward along Pending -> Running -> Done|Succeeded or Done|Failed
C18_StatusMonotonic ==
    [][\A j \in DOMAIN jobs :
          j \in DOMAIN jobs' => Forward(jobs[j].status, jobs'[j].status)]_vars

\* C19: in every state reached through the schedulers, first or repeated
\* runs, the status of a job has the Done bit iff it has exactly one of the
\* Succeeded and Failed bits, and never has both
C19_DoneWithOneOutcome ==
    \A j \in Ids :
        /\ IsState(j, JobStateDone) <=>
              (IsState(j, JobStateSucceed) # IsState(j, JobStateFailed))
        /\ ~(IsState(j, JobStateSucceed) /\ IsState(j, JobStateFailed))
        /\ jobs[j].status \in
              {JobStatePending, JobStateRunning, DoneSucceed, DoneFailed}

\* C19 witness: a run with a Done|Succeeded job, a Done|Failed job and a
\* Running job
C19_Witness ==
    \E j \in Ids, k \in Ids, l \in Ids :
        /\ jobs[j].status = DoneSucceed /\ jobs[k].status = DoneFailed
        /\ jobs[l].status = JobStateRunning

\* the flags of one bit
RECURSIVE IsOneBit(_)
IsOneBit(b) == b = 1 \/ (b > 1 /\ b % 2 = 0 /\ IsOneBit(b \div 2))

\* bit b of the word w is set, by division
HasBit(w, b) == (w \div b) % 2 = 1

\* C20: IsState(JobStatePending) is true iff the status is zero, IsState of
\* a flag of one bit is true iff that bit is set in the status; so
\* IsState(JobStateDone) is true on Done|Succeeded and on Done|Failed and
\* IsState(JobStateRunning) is false on both
C20_IsStateContract ==
    isState.called =>
        /\ isState.jobState = JobStatePending =>
              (isState.res <=> isState.status = 0)
        /\ IsOneBit(isState.jobState) =>
              (isState.res <=> HasBit(isState.status, isState.jobState))
        /\ (isState.status \in {DoneSucceed, DoneFailed}
                /\ isState.jobState = JobStateDone) => isState.res
        /\ (isState.status \in {DoneSucceed, DoneFailed}
                /\ isState.jobState = JobStateRunning) => ~isState.res

\* C20 witness: IsState(JobStateDone) has returned true on Done|Failed
C20_Witness ==
    /\ isState.called /\ isState.status = DoneFailed
    /\ isState.jobState = JobStateDone /\ isState.res
\* C21: when SetMaxConcurrentJobs is called while a flat or DAG run is in
\* progress, the receive on limiterChan of every goroutine that has reached
\* it goes through without blocking, and the run can always take a step
\* until the call has returned and every goroutine has ended
C21_ReconfigureKeepsRelease ==
    InRun =>
        /\ \A j \in DOMAIN g : g[j].pc = "release" => ENABLED done_Release(j)
        /\ (~Returned \/ ~GoroutinesEnded) => ENABLED ReconfigRunStep

\* C22: after SetMaxConcurrentJobs(n) the capacity of the limiter is n when
\* n >= 1 and GOMAXPROCS, itself at least 1, when n < 1; so the capacity is
\* at least 1 after any sequence of calls, and under fair scheduling a run
\* that waits for a slot eventually gets it
C22_CapacityAtLeastOne ==
    /\ [](/\ GOMAXPROCS >= 1
          /\ limiterCap = (IF capArg >= 1 THEN capArg ELSE GOMAXPROCS)
          /\ limiterCap >= 1)
    /\ (pc = "acquire" ~> pc = "setRunning")

\* C22 witness: after SetMaxConcurrentJobs(-1) a run has taken the last of
\* the GOMAXPROCS slots of the limiter for its second job
C22_Witness ==
    /\ capArg = 0 - 1 /\ limiterCap = GOMAXPROCS
    /\ pc = "setRunning" /\ cur = 1 /\ limiterLen = limiterCap

\* the jobs whose before-this-job event has been fired
LaunchedJobs == {j \in Ids : startCalled[j] > 0}

\* C23: in Execute the jobs that have taken a slot, those that have left
\* Pending and those whose before-this-job event has been fired are at every
\* moment the first jobs in insertion order, each set reaching at most one
\* job further than the next: job i + 1 is never launched before job i;
\* jobs complete in any order
C23_FlatLaunchOrder ==
    mode = "flat" =>
        LET n == Cardinality(LaunchedJobs)
            slot == IF pc \in {"setRunning", "jobStart"} THEN {cur} ELSE {}
            left == IF pc = "jobStart" THEN {cur} ELSE {}
        IN /\ LaunchedJobs = 0..(n - 1)
           /\ slot \subseteq {n}
           /\ {j \in Ids : jobs[j].status # JobStatePending} = 0..(n - 1) \cup left
           /\ {j \in Ids : g[j].pc # "none"} = LaunchedJobs
           /\ pc = "acquire" => cur = n
           /\ pc \in {"wait", "jobsDone", "collect", "returned"} => n = JobsLen

\* C23 witness: in Execute on three jobs behind a limiter of two slots, job
\* 1 is Done and has given its slot to job 2 while job 0, launched first, is
\* still Running
C23_Witness ==
    /\ mode = "flat" /\ JobsLen = 3 /\ limiterCap = 2
    /\ IsState(1, JobStateDone) /\ g[1].pc = "end"
    /\ jobs[0].status = JobStateRunning /\ jobs[2].status = JobStateRunning

\* C24: after any sequence of registration calls (AddJob, AddJobs,
\* AddJobCmds, AddJobFns, AddNamedJobCmd, AddNamedJobFn, NamedJob wrappers
\* and panicking calls included) the job at position k has id k, the
\* positions are 0..Len()-1, Len() is the number of values taken as jobs,
\* and no step removes a job or changes the id or the payload at a position
C24_DenseIds ==
    /\ [](/\ DOMAIN jobs = 0..(JobsLen - 1)
          /\ \A k \in DOMAIN jobs : jobs[k].id = k
          /\ JobsLen = added)
    /\ [][\A k \in DOMAIN jobs :
              /\ k \in DOMAIN jobs'
              /\ jobs'[k].id = jobs[k].id
              /\ jobs'[k].payload = jobs[k].payload]_vars

\* C24 witness: AddJobs has panicked on its second value after it took the
\* first, a NamedJob around a function, as job 1
C24_Witness ==
    /\ lastCall.op = "AddJobs" /\ lastCall.panicked
    /\ JobsLen = 2 /\ added = 2
    /\ jobs[1].id = 1 /\ jobs[1].displayName = "test"
    /\ jobs[0].payload = "cmd"

\* what registration has set on the jobs of js
RegisteredFields(js) ==
    [k \in DOMAIN js |->
        [id |-> js[k].id, payload |-> js[k].payload,
         displayName |-> js[k].displayName, DependsOn |-> js[k].DependsOn]]

\* C25: AddJob on a value its switch has no case for, bare or under a
\* NamedJob, panics, and from then to the next registration call the job
\* list is the one of before the call: no job appended, Len() unchanged;
\* a run made after the panic returns a map whose keys are the Failed jobs
\* of the list, each with the error of its job
C25_UnsupportedPanics ==
    (lastCall.op = "AddJob" /\ ~Supported(lastCall.values[1])) =>
        /\ lastCall.panicked
        /\ JobsLen = Cardinality(DOMAIN lastCall.before)
        /\ added = Cardinality(DOMAIN lastCall.before)
        /\ RegisteredFields(jobs) = RegisteredFields(lastCall.before)
        /\ DOMAIN errs \subseteq DOMAIN lastCall.before
        /\ Returned =>
              /\ DOMAIN res = FailedJobs
              /\ \A j \in DOMAIN res : res[j] = jobs[j].Err

\* C25 witness: Execute has returned a map of one entry on a list of two
\* jobs after AddJob panicked on a NamedJob around a func()
C25_Witness ==
    /\ lastCall.op = "AddJob" /\ lastCall.panicked
    /\ lastCall.values = <<Named("test", OtherValue)>>
    /\ Returned /\ mode = "flat" /\ JobsLen = 2
    /\ Cardinality(DOMAIN res) = 1

\* the jobs whose id has been sent on doneChan, received or not
PostedJobs == {j \in DOMAIN g : g[j].pc \in {"post", "end"}}

\* C26: in a DagExecute run on an acyclic graph a job whose id is being
\* sent or has been received on doneChan is Done, its after-this-job event
\* has been fired on it Done and has returned, and it holds no slot: the
\* slots taken are those of the job being launched and of the goroutines
\* that have not yet received on limiterChan; every dependency of a job
\* that is in the ready queue or has left it has had its id received
C26_PostAfterRelease ==
    DagRun =>
        /\ limiterLen = Cardinality(BeforeRelease)
                + (IF pc \in {"setRunning", "jobStart"} THEN 1 ELSE 0)
        /\ \A j \in PostedJobs :
              /\ IsState(j, JobStateDone)
              /\ doneCalled[j] = 1
              /\ StatusIs(saw.jobDone[j], JobStateDone)
              /\ j \notin BeforeRelease
        /\ doneJob = Cardinality({j \in DOMAIN g : g[j].pc = "end"})
        /\ \A b \in Ids :
              (Occurrences(jobQueue, b) > 0 \/ g[b].pc # "none"
                  \/ (cur = b /\ pc \in {"acquire", "setRunning", "jobStart"}))
                 => \A a \in DepsOf(jobs, b) : g[a].pc = "end"

\* C26 witness: in a DAG run of three jobs behind a limiter of one slot, a
\* job waits to send its id while the slot it gave back is held by the job
\* being launched
C26_Witness ==
    /\ DagRun /\ JobsLen = 3 /\ limiterCap = 1 /\ limiterLen = 1
    /\ pc = "setRunning"
    /\ \E j \in Ids : g[j].pc = "post"

\* job j has committed what its work returned
WorkCommitted(j) ==
    /\ invoked[j] = 1
    /\ jobs[j].Res = WorkRes(jobs[j].payload)
    /\ jobs[j].Err = WorkErr(jobs[j].payload)
    /\ jobs[j].status = (IF WorkErr(jobs[j].payload) = NoErr
                            THEN DoneSucceed ELSE DoneFailed)

\* job j has committed the failure of a dependency
DependencyFailureCommitted(j) ==
    /\ invoked[j] = 0
    /\ jobs[j].Err = ErrRequiredJobFailed
    /\ jobs[j].status = DoneFailed
    /\ jobs[j].DependsOn # <<>>

\* C27: one call of run on a job that wraps a unit of work, in a first or a
\* later run: the work is invoked at most once, and not before the
\* dependency checks; between the return of the work and the commit the
\* job is still Running; when run reaches done() it has either invoked the
\* work once and committed its result, its error and the terminal status,
\* or found a dependency not Succeeded, not invoked the work and committed
\* the dependency failure; done() then fires the after-this-job event
\* once, on the job in its terminal status, on both paths
C27_RunContract ==
    \A j \in DOMAIN g :
        /\ invoked[j] <= 1 /\ doneCalled[j] <= 1
        /\ g[j].pc \in {"none", "run", "depErr"} =>
              (invoked[j] = 0 /\ doneCalled[j] = 0)
        /\ g[j].pc = "commit" =>
              /\ invoked[j] = 1 /\ doneCalled[j] = 0
              /\ jobs[j].status = JobStateRunning
              /\ g[j].res = WorkRes(jobs[j].payload)
              /\ g[j].err = WorkErr(jobs[j].payload)
        /\ g[j].pc \notin {"none", "run", "depErr", "commit"} =>
              /\ WorkCommitted(j) \/ DependencyFailureCommitted(j)
              /\ doneCalled[j] = (IF g[j].pc = "done" THEN 0 ELSE 1)
              /\ doneCalled[j] = 1 => saw.jobDone[j] = jobs[j].status

\* C27 witness: in a second run on an executor, run has returned for a job
\* that committed the failure of its dependency and for a job whose work
\* was invoked once, after-this-job event fired for both
C27_Witness ==
    /\ runs = 2
    /\ \E j \in Ids, k \in Ids :
          /\ g[j].pc = "end" /\ DependencyFailureCommitted(j)
          /\ doneCalled[j] = 1
          /\ g[k].pc = "end" /\ WorkCommitted(k) /\ doneCalled[k] = 1

\* dagExecute has built its counters and its queue
DagStarted == DagRun /\ dagCalled > 0 /\ pc # "jobsStart"

\* times job j has entered the ready queue: it is in the queue, or has been
\* taken off it to be launched
Enqueued(j) ==
    Occurrences(jobQueue, j)
        + (IF g[j].pc # "none"
              \/ (cur = j /\ pc \in {"acquire", "setRunning", "jobStart"})
           THEN 1 ELSE 0)

\* the dependency declarations of job j, a repeated one counted each time,
\* on jobs whose completion dagExecute has not yet received
OpenDeclarations(j) ==
    Cardinality({k \in 1..Len(jobs[j].DependsOn) :
                    g[jobs[j].DependsOn[k]].pc # "end"})

\* C29: in a DagExecute run on an acyclic graph the counter of a job is the
\* number of its dependency declarations, repeated ones included, not yet
\* completed, and is never negative; a job has entered the ready queue at
\* most once, and has entered it iff its counter is zero; it is launched at
\* most once, and once when the run has returned
C29_LaunchedExactlyOnce ==
    DagStarted =>
        \A j \in Ids :
            /\ dependentCount[j] >= 0
            /\ dependentCount[j] = OpenDeclarations(j)
            /\ Enqueued(j) <= 1
            /\ Enqueued(j) = 1 <=> dependentCount[j] = 0
            /\ startCalled[j] <= 1
            /\ startCalled[j] = 1 <=> g[j].pc # "none"
            /\ Returned => (startCalled[j] = 1 /\ Enqueued(j) = 1)

\* C29 witness: a DAG run has returned in which a job declared the same
\* dependency twice and was launched once
C29_Witness ==
    /\ DagStarted /\ Returned
    /\ \E j \in Ids, a \in Ids :
          /\ j # a /\ jobs[j].DependsOn = <<a, a>>
          /\ startCalled[j] = 1 /\ dependentCount[j] = 0

\* the goroutines of a DagExecute run that were launched and whose
\* completion the scheduling loop has not read from doneChan
Outstanding == {j \in DOMAIN g : g[j].pc \notin {"none", "end"}}

\* the goroutines whose completion the scheduling loop has read
Consumed == {j \in DOMAIN g : g[j].pc = "end"}

\* the scheduling loop of dagExecute is over
LoopExited == pc \in {"wait", "jobsDone", "collect", "returned"}

\* C30: in a DagExecute run on an acyclic graph, when the scheduling loop
\* blocks on doneChan with fewer completions consumed than jobs, a launched
\* job has its completion still to be consumed; the consumed completions
\* are counted by doneJob, never exceed the launched jobs, and the loop is
\* left exactly when doneJob equals the number of jobs
C30_LoopProgress ==
    DagStarted =>
        /\ (pc = "recv" /\ doneJob < JobsLen) => Outstanding # {}
        /\ doneJob = Cardinality(Consumed)
        /\ doneJob <= Cardinality(Consumed \cup Outstanding)
        /\ LoopExited <=> doneJob = JobsLen

\* the loop blocks on doneChan after one completion, one job still at work
\* and another one not launched yet
C30_Witness ==
    /\ DagStarted
    /\ pc = "recv"
    /\ doneJob = 1
    /\ JobsLen = 3
    /\ \E j \in DOMAIN g : g[j].pc = "run"
    /\ \E j \in DOMAIN g : g[j].pc = "none"
    /\ \A j \in DOMAIN g : g[j].pc # "post"

\* the jobs of the second run whose status is Running
PeerRunningJobs ==
    {j \in DOMAIN peer.jobs : peer.jobs[j].status = JobStateRunning}

\* both executors are in a scheduling call, or back from it
BothCalled == mode # "none" /\ peer.mode # "none"

BothReturned == pc = "returned" /\ peer.pc = "returned"

\* C28: two scheduling runs of one process, flat or DAG, on different job
\* lists, draw from one slot pool: the Running jobs of both runs together
\* never exceed the cap N, N >= 1, and both runs return
C28_SharedPool ==
    /\ [](BothCalled =>
            /\ limiterCap >= 1
            /\ Cardinality(RunningJobs) + Cardinality(PeerRunningJobs) <= limiterCap)
    /\ (BothCalled ~> BothReturned)

\* the pool of two slots is full with one Running job of each run, and the
\* DAG run of the first executor waits for a slot to launch its next job
C28_Witness ==
    /\ mode = "dag" /\ peer.mode = "flat"
    /\ limiterCap = 2
    /\ Cardinality(RunningJobs) = 1
    /\ Cardinality(PeerRunningJobs) = 1
    /\ pc = "acquire"
    /\ peer.pc = "wait"

\* the jobs that are on a cycle of the dependsOn relation or depend,
\* directly or through other jobs, on a job that is
Unlaunchable ==
    {j \in Ids : \E c \in TransDeps(jobs, j) \cup {j} : c \in TransDeps(jobs, c)}

Launchable == Ids \ Unlaunchable

\* dagExecute has been entered on a graph that has a cycle
CyclicDagStarted == mode = "dag" /\ HasCycle(jobs) /\ dagCalled > 0

\* the scheduling loop waits on doneChan and every job that could be
\* launched has had its completion consumed
BlockedOnCycle ==
    /\ pc = "recv"
    /\ jobQueue = <<>>
    /\ doneJob = Cardinality(Launchable)
    /\ \A j \in Launchable : g[j].pc = "end"

\* C31: dagExecute entered on a graph with a cycle never launches the jobs
\* on a cycle nor the jobs that depend on them, its count of completions
\* stays below the number of jobs, it never leaves its loop, and once the
\* other jobs have completed it stays blocked on doneChan for ever
C31_CyclicBlocksForever ==
    /\ [](CyclicDagStarted =>
            /\ \A j \in Unlaunchable :
                    /\ g[j].pc = "none"
                    /\ startCalled[j] = 0
                    /\ jobs[j].status = JobStatePending
            /\ doneJob < JobsLen
            /\ pc \in {"acquire", "setRunning", "jobStart", "recv"})
    /\ (CyclicDagStarted ~> []BlockedOnCycle)

\* one job on a cycle, one job that depends on it and one job that depends
\* on nothing: the last one has run and the loop is blocked
C31_Witness ==
    /\ CyclicDagStarted
    /\ BlockedOnCycle
    /\ Cardinality(Launchable) = 1
    /\ \E j \in Unlaunchable : j \notin TransDeps(jobs, j)
    /\ \E j \in Launchable : jobs[j].status = DoneSucceed

\* Err and Res of the followed job once its run has committed: the outcome
\* of the work, the dependency error, or what the job held before
CommittedErr ==
    IF commit.depErr THEN ErrRequiredJobFailed
    ELSE IF commit.kind = "empty" THEN commit.before.Err
    ELSE WorkErr(commit.payload)

CommittedRes ==
    IF commit.depErr \/ commit.kind = "empty" THEN commit.before.Res
    ELSE WorkRes(commit.payload)

\* the followed job takes the write lock for its commit
CommitsUnderLock == commit.kind \in {"cmd", "fn"} \/ commit.depErr

\* C32: the result, the error and the terminal status of a job are
\* committed in one critical section under the write lock of the job: a
\* goroutine that runs along the job and sees IsState(JobStateDone) true
\* then reads through Err() and CombinedOutput() the error and the result
\* the run committed, never what the job held before
C32_CommitIsAtomic ==
    commit.kind # "none" =>
        /\ (CommitsUnderLock /\ ~commit.writer
                /\ StatusIs(commit.status, JobStateDone)) =>
              /\ commit.Err = CommittedErr
              /\ commit.Res = CommittedRes
              /\ commit.locks = 1 /\ commit.unlocks = 1
        /\ commit.seen.done =>
              /\ commit.reader \in {"res", "read"} => commit.seen.Err = CommittedErr
              /\ commit.reader = "read" => commit.seen.Res = CommittedRes

\* the reader saw Done and read the error of the failed work and its
\* result, on a job that held the result and no error of an earlier run
C32_Witness ==
    /\ commit.kind = "fn"
    /\ commit.payload = "fail"
    /\ ~commit.depErr
    /\ commit.before = [Res |-> WorkRes("ok"), Err |-> NoErr]
    /\ commit.reader = "read"
    /\ commit.seen = [done |-> TRUE, Err |-> WorkErr("fail"), Res |-> WorkRes("fail")]

\* C33: job.run never releases the write lock of the job without having
\* acquired it: for a job that holds a command, a function or neither, the
\* commit of the terminal state takes the lock once, releases it once, and
\* the job ends Done
C33_LockBalanced ==
    commit.kind # "none" =>
        /\ ~commit.fatal
        /\ commit.unlocks <= commit.locks
        /\ RunReturned(commit) =>
              /\ commit.locks = 1
              /\ commit.unlocks = 1
              /\ StatusIs(commit.status, JobStateDone)

\* C34: when execute has passed wg.Wait(), so when onJobsDone fires and
\* when Execute returns, every slot the run acquired has been released:
\* the goroutine of a job gives its slot back before it calls wg.Done()
C34_FlatReleasedAtReturn ==
    (mode = "flat" /\ pc \in {"jobsDone", "collect", "returned"}) =>
        /\ limiterLen = 0
        /\ \A j \in DOMAIN g : g[j].pc # "release"

\* the slots the run holds: one per goroutine that has not yet received
\* from limiterChan, and one for the job the invoking goroutine has a slot
\* for and has not started yet
SlotsOwed ==
    Cardinality(BeforeRelease)
        + (IF InRun /\ pc \in {"setRunning", "jobStart"} THEN 1 ELSE 0)

\* C35: while SetMaxConcurrentJobs is not called, every launched job holds
\* one slot from its acquisition to its release, every acquisition has its
\* one release, a release never blocks, in the run in progress or by a
\* goroutine of a run that has returned, and when the goroutines of the
\* finished runs have ended the pool is empty: a run starts with no other
\* slots taken than those of the goroutines of earlier runs that have yet
\* to receive
C35_NoSlotLeak ==
    /\ limiterLen = SlotsOwed + late
    /\ limiterLen <= limiterCap
    /\ \A j \in DOMAIN g : g[j].pc = "release" => ENABLED done_Release(j)
    /\ late > 0 => ENABLED late_Release
    /\ (Returned /\ GoroutinesEnded /\ late = 0) => limiterLen = 0
    /\ (InRun /\ pc = "jobsStart") => limiterLen = late

\* a second run on the executor waits for a slot: the pool of two is full
\* with the slot of one of its own jobs, about to be released, and the
\* slot of a goroutine of the first run that has yet to receive
C35_Witness ==
    /\ runs = 2
    /\ pc = "acquire"
    /\ limiterCap = 2
    /\ limiterLen = limiterCap
    /\ late = 1
    /\ Cardinality(BeforeRelease) = 1
    /\ \E j \in DOMAIN g : g[j].pc = "release"

\* C36: dagExecute closes doneChan, on its return, only when the
\* completion of every job has been sent and consumed: no goroutine is at
\* its send, or before it, when the channel is closed, and none stays
\* blocked on its send after dagExecute has returned
C36_CloseAfterAllConsumed ==
    (mode = "dag" /\ dagCalled > 0) =>
        /\ doneChanClosed =>
              /\ doneJob = JobsLen
              /\ \A j \in DOMAIN g : g[j].pc = "end"
        /\ pc \in {"collect", "returned"} =>
              /\ doneChanClosed
              /\ \A j \in DOMAIN g : g[j].pc # "post"

\* dagExecute has returned from a run of three jobs, one of which failed on
\* its dependency, and has closed the channel
C36_Witness ==
    /\ mode = "dag" /\ dagCalled > 0
    /\ pc = "returned"
    /\ doneChanClosed
    /\ JobsLen = 3
    /\ doneJob = 3
    /\ \E j \in Ids : jobs[j].Err = ErrRequiredJobFailed

\* on an acyclic graph: the work of job j is invoked when the work of
\* every job it depends on, directly or through other jobs, returns no
\* error; the job succeeds when its own work returns none either
WorkExpected(j) == \A d \in TransDeps(jobs, j) : WorkErr(jobs[d].payload) = NoErr

SuccessExpected(j) == WorkExpected(j) /\ WorkErr(jobs[j].payload) = NoErr

\* C37: the outcome of a DagExecute run on an acyclic graph is a function
\* of the graph and of the results of the units of work alone: whatever
\* the interleaving of the goroutines and the cap, every job ends in the
\* same terminal state with the same error, the same jobs have had their
\* work invoked, once, and the returned error map has the same keys
C37_DagOutcomeDetermined ==
    (DagRun /\ Returned) =>
        /\ \A j \in Ids :
              /\ invoked[j] = (IF WorkExpected(j) THEN 1 ELSE 0)
              /\ jobs[j].status = (IF SuccessExpected(j) THEN DoneSucceed ELSE DoneFailed)
              /\ jobs[j].Err = (IF ~WorkExpected(j) THEN ErrRequiredJobFailed
                                ELSE WorkErr(jobs[j].payload))
        /\ DOMAIN res = {j \in Ids : ~SuccessExpected(j)}

\* a returned run with two slots in which one job succeeded, one failed in
\* its work and one failed on its dependency
C37_Witness ==
    /\ DagRun /\ Returned
    /\ limiterCap = 2
    /\ JobsLen = 3
    /\ \E j \in Ids : jobs[j].status = DoneSucceed
    /\ \E j \in Ids : jobs[j].Err = ErrTest
    /\ \E j \in Ids : jobs[j].Err = ErrRequiredJobFailed /\ invoked[j] = 0
    /\ Cardinality(DOMAIN res) = 2

\* the invoking goroutine is launching job j: it is at step p for it
Launching(j, p) == cur = j /\ pc = p /\ g[j].pc = "none"

\* C38: in a DagExecute run a job that fails on a dependency goes through
\* the scheduler like any other job: a slot is acquired for it, it is set
\* Running, onJobStart fires on it, then it is marked Done|Failed with
\* ErrRequiredJobFailed, onJobDone fires on it and its slot is released;
\* only its work is not invoked
C38_DependencyFailureScheduled ==
    DagStarted =>
        \A j \in {k \in Ids : ~WorkExpected(k)} :
            /\ invoked[j] = 0
            /\ g[j].pc = "run" => g[j].k <= Len(jobs[j].DependsOn)
            /\ Launching(j, "setRunning") =>
                  /\ limiterLen >= 1
                  /\ jobs[j].status = JobStatePending
            /\ Launching(j, "jobStart") =>
                  /\ limiterLen >= 1
                  /\ jobs[j].status = JobStateRunning
                  /\ startCalled[j] = 0
            /\ g[j].pc # "none" =>
                  /\ startCalled[j] = 1
                  /\ saw.jobStart[j] = JobStateRunning
            /\ g[j].pc \in {"run", "depErr"} =>
                  /\ jobs[j].status = JobStateRunning
                  /\ doneCalled[j] = 0
            /\ g[j].pc \in {"done", "wgDone", "release", "post", "end"} =>
                  /\ DependencyFailureCommitted(j)
                  /\ doneCalled[j] = (IF g[j].pc = "done" THEN 0 ELSE 1)
                  /\ doneCalled[j] = 1 => saw.jobDone[j] = DoneFailed
            /\ j \in BeforeRelease => limiterLen >= Cardinality(BeforeRelease)
            /\ Returned => g[j].pc = "end"

\* a job that failed on its dependency is about to give its slot back:
\* both callbacks have fired on it and its work was not invoked
C38_Witness ==
    /\ DagStarted
    /\ \E j \in Ids :
          /\ ~WorkExpected(j)
          /\ g[j].pc = "release"
          /\ limiterLen >= 1
          /\ startCalled[j] = 1 /\ doneCalled[j] = 1
          /\ saw.jobStart[j] = JobStateRunning
          /\ saw.jobDone[j] = DoneFailed
          /\ jobs[j].Err = ErrRequiredJobFailed
          /\ invoked[j] = 0

\* the JobSet and the dependency lists as the memory holds them
MemoryJobSet == SliceSeq(kahn.heap, kahn.ejobs)
MemoryDependsOn ==
    [j \in DOMAIN kahn.DependsOn |-> SliceSeq(kahn.heap, kahn.DependsOn[j])]

\* what a call of IsAcyclic is to leave alone: the JobSet, the dependency
\* lists, and the status, the result and the error of every job
CallerView == <<MemoryJobSet, MemoryDependsOn, jobs>>

\* the memory holds the jobs in insertion order and the dependencies each
\* job declared, in the order they were declared
MemoryAsRegistered ==
    /\ MemoryJobSet = IdSeq(JobsLen)
    /\ DOMAIN kahn.DependsOn = Ids
    /\ \A j \in Ids : MemoryDependsOn[j] = jobs[j].DependsOn

\* the values returned since the last registration are one value, the one
\* the graph of the jobs calls for
ResultsAgree ==
    \A k \in 1..Len(kahn.results) :
        /\ kahn.results[k] = ~HasCycle(jobs)
        /\ kahn.results[k] = kahn.results[1]
        /\ kahn.results[k] = IsAcyclic(jobs)

\* C39: IsAcyclic only reads: every statement of a call, from its entry
\* to its return, leaves the JobSet, the dependency list of every job and
\* the status, the result and the error of every job as they were, also
\* where an append writes into a backing array; the memory holds the jobs
\* and the dependencies as they were registered; a call that was entered
\* returns; and the calls made with no registration in between, before or
\* after a scheduling run, return the same value, true iff the graph has no
\* cycle
C39_IsAcyclicReadOnly ==
    /\ [][(kahn_Call \/ KahnStep) => CallerView' = CallerView]_vars
    /\ [](MemoryAsRegistered /\ ResultsAgree)
    /\ [](InCall => kahn.index <= kahn.length)
    /\ (InCall ~> kahn.pc = "returned")

\* IsAcyclic has returned false twice after an Execute on two jobs that
\* depend on each other, which has left both Done and Failed: the first
\* job has declared its dependency twice, its list is in the second
\* backing array append gave it
C39_Witness ==
    /\ kahn.pc = "returned"
    /\ kahn.results = <<FALSE, FALSE>>
    /\ pc = "returned" /\ mode = "flat"
    /\ JobsLen = 2
    /\ jobs[0].DependsOn = <<1, 1>>
    /\ jobs[1].DependsOn = <<0>>
    /\ \A j \in Ids : jobs[j].status = DoneFailed
    /\ \A j \in Ids : jobs[j].Err = ErrRequiredJobFailed
    /\ kahn.DependsOn[0].cap = 2

====
